---- MODULE Spec2Model ----
(***************************************************************************)
(* FFmpeg render server: job admission (POST /render), the job registry,   *)
(* the render task handleRender with its downloads and temp files, and     *)
(* callback delivery (sendCallbackWithBackoff).                            *)
(*                                                                         *)
(* Granularity.  Node runs one event-loop callback at a time and drains    *)
(* the promise continuations it triggered before the next callback, so an  *)
(* action is one callback together with every continuation it resumes, up  *)
(* to the next wait for an operation that settles in a later callback      *)
(* (a network download, an HTTP post, a timer).  getAvailableDiskSpace is  *)
(* synchronous inside (execSync), so the pre-flight check belongs to the   *)
(* POST callback itself.                                                   *)
(***************************************************************************)
EXTENDS Naturals, Integers, Sequences, FiniteSets, TLC

\* ------------------------------------------------------------------ bounds
MaxSubmissions == 2        \* render tasks admitted in Spec and LiveSpec
MaxAdmitted == 6           \* render tasks admitted in AdmitSpec
MaxDeliveries == 3         \* callback deliveries in CallbackSpec
MaxPipelines == 1          \* render tasks admitted in PipelineSpec
MaxCapped == 5             \* render tasks admitted in CapSpec
MaxRegistered == 2         \* render tasks admitted in RegistrySpec
MaxHours == 3              \* the clock of RegistrySpec stops at this many hours
MaxMillis == 1              \* and goes at most this many ms past a full hour
MaxSpeedSteps == 17        \* the speeds of EffectsSpec go up to this many quarters
MaxEntries == 3            \* entries of a timeline in GraphSpec
MaxCues == 2               \* cues of a subtitle list in AssSpec
MaxCueSeconds == 1         \* the cue times of AssSpec go up to this many seconds
MaxLines == 5              \* lines of a subtitle text in SrtSpec
MaxDiskJobs == 1           \* render tasks admitted in DiskSpec
MaxTextLen == 6            \* characters of a cue text in WrapSpec
MaxFps == 6                \* the numbers of a frame rate string in FpsSpec go up to this

\* ------------------------------------------------------- program constants
MAX_CONCURRENT_JOBS == 5
MinFreeBytes == 209715200            \* 200 * 1024 * 1024
RegistryHighWater == 100
OneHourMs == 3600000                 \* 60 * 60 * 1000
maxRetries == 3
RetryUnitMs == 5000

NoVal == "<undefined>"               \* an absent string field
None == << >>                        \* an absent value of another type
Some(v) == << v >>
Given(opt) == opt # << >>
Get(opt) == opt[1]

\* JavaScript's truthiness for a string field.
Truthy(str) == str \notin { NoVal, "" }

\* ------------------------------------------------------------- identifiers
\* The names bound in the render module: its requires and its own functions.
RenderScope ==
    { "ffmpeg", "axios", "fs", "path", "TEMP_DIR", "R2_PUBLIC_URL_BASE", "log",
      "downloadFile", "uploadToR2", "cleanupFiles", "getAvailableDiskSpace",
      "generateAss", "escapeFfmpegPath", "FONTS_DIR",
      "handleRender", "sendCallbackWithBackoff" }

\* Evaluating an identifier that is not bound throws a ReferenceError.
Bound(id) == id \in RenderScope

ReferenceError(id) == id \o " is not defined"

\* ------------------------------------------------------------------- input
StorageBase == "https://pub.r2.example"
WebBase == "https://cdn.example"

\* A URL is base + "/" + rest; ext is path.extname of its pathname.
Url(base, rest, ext) == [base |-> base, rest |-> rest, ext |-> ext]
NoUrl == Url("", "", "")             \* an absent or empty URL

WebVideo == Url(WebBase, "v.mp4", ".mp4")
WebAudio == Url(WebBase, "a.mp3", ".mp3")
WebSrt == Url(WebBase, "s.srt", ".srt")
StoredAudio == Url(StorageBase, "a.mp3", ".mp3")

Entry(type, url) == [type |-> type, source_url |-> url]

Request(id, timeline, video, audio, subUrl, subContent, callback) ==
    [ job_id |-> id, timeline |-> timeline, video_url |-> video,
      audio_url |-> audio, subtitle_url |-> subUrl,
      subtitle_content |-> subContent, callback_url |-> callback ]

Flat(id, video, audio, subUrl, subContent, callback) ==
    Request(id, None, video, audio, subUrl, subContent, callback)

Timeline(id, entries, callback) ==
    Request(id, Some(entries), NoUrl, NoUrl, NoUrl, NoVal, callback)

\* The request bodies of Spec and LiveSpec.  A subtitle entry carries its
\* start, end and text, which generateAss needs; they play no part here.
Requests ==
    { Flat(id, WebVideo, StoredAudio, NoUrl, NoVal, NoVal) : id \in {"j1", "j2"} }
    \cup { Flat("j1", WebVideo, WebAudio, WebSrt, NoVal, "https://hook.example") }
    \cup { Flat("j2", WebVideo, WebAudio, NoUrl, "srt text", NoVal) }
    \cup { Timeline("j1", << Entry("video", WebVideo), Entry("audio", WebVideo),
                             Entry("subtitle", NoUrl) >>, NoVal) }
    \cup { Timeline("j2", << Entry("subtitle", NoUrl) >>, "https://hook.example") }
    \cup { Flat(NoVal, WebVideo, WebAudio, NoUrl, NoVal, NoVal),
           Flat("j1", WebVideo, NoUrl, NoUrl, NoVal, NoVal) }

\* The request bodies of AdmitSpec when k jobs were admitted before: a fresh
\* job id and one download, so that the task stays in flight across
\* callbacks, or a body that fails validation.
AdmitRequests(k) ==
    { Timeline("j" \o ToString(k + 1), << Entry("video", WebVideo) >>, NoVal),
      Timeline(NoVal, << Entry("video", WebVideo) >>, NoVal),
      Flat("j1", NoUrl, WebAudio, NoUrl, NoVal, NoVal) }

\* The request bodies of CapSpec when k jobs were admitted before: a flat job
\* with a fresh id, or a body that fails validation.
CapRequests(k) ==
    { Flat("j" \o ToString(k + 1), WebVideo, WebAudio, NoUrl, NoVal, NoVal),
      Flat(NoVal, WebVideo, WebAudio, NoUrl, NoVal, NoVal) }

\* The request bodies of PipelineSpec: those of Spec, and timelines whose
\* entries repeat a source, name several, or name one without an extension.
WebClip == Url(WebBase, "clip", "")
StorageRoot == Url(StorageBase, "", "")     \* the public base and "/" alone

PipelineRequests ==
    Requests
    \cup { Timeline("j1", << Entry("video", WebVideo), Entry("audio", WebAudio),
                             Entry("video", WebVideo), Entry("audio", WebAudio) >>,
                     "https://hook.example") }
    \cup { Timeline("j2", << Entry("video", WebVideo), Entry("audio", StoredAudio),
                             Entry("audio", StoredAudio) >>, NoVal) }
    \cup { Timeline("j2", << Entry("audio", WebClip), Entry("video", WebClip) >>, NoVal) }
    \cup { Flat("j1", StoredAudio, StoredAudio, StoredAudio, NoVal, NoVal) }
    \cup { Flat("j2", WebVideo, StorageRoot, NoUrl, NoVal, NoVal) }

JobIds ==
    { r.job_id : r \in Requests \cup UNION { AdmitRequests(k) : k \in 0..MaxAdmitted } }
      \ { NoVal }

\* What the free-space query yields: a byte count, or None when the command
\* fails or prints no number.
DiskReadings == { None, Some(0), Some(104857600), Some(209715199), Some(209715200) }
AdmitDiskReadings == { Some(104857600), Some(209715200) }

\* ------------------------------------------------------------------- state
VARIABLES
    jobs,                \* the registry: job id -> record
    held,                \* job id -> the statuses ever written for it
    activeJobs,          \* the concurrency counter
    tasks,               \* the render tasks, in admission order
    files,               \* the paths that exist in TEMP_DIR
    response,            \* the last response of POST /render
    now,                 \* the wall clock, ms
    base,                \* R2_PUBLIC_URL_BASE of the configuration
    crashed,             \* the process died of an uncaught exception
    cb,                  \* the callback deliveries of CallbackSpec
    call                 \* the compiler call of EffectsSpec and GraphSpec

vars == << jobs, held, activeJobs, tasks, files, response, now, base, crashed, cb, call >>

\* ---------------------------------------------------------------- registry
Tracked(js) == DOMAIN js

JobRecord(status, progress, error, at) ==
    [ status |-> status, progress |-> progress, error |-> error, updated_at |-> at ]

\* As SetJobStatus, but sweeping from 100 tracked jobs on.
SetJobStatusSweepAtHighWater(js, at, jobId, status, progress, error) ==
    LET written == [ id \in Tracked(js) \cup { jobId } |->
                       IF id = jobId THEN JobRecord(status, progress, error, at)
                                     ELSE js[id] ]
        oneHourAgo == at - OneHourMs
    IN  IF Cardinality(Tracked(written)) >= RegistryHighWater
        THEN [ id \in { i \in Tracked(written) : ~(written[i].updated_at < oneHourAgo) }
                 |-> written[id] ]
        ELSE written

\* setJobStatus: upsert the record, then sweep when more than 100 are tracked.
SetJobStatus(js, at, jobId, status, progress, error) ==
    LET written == [ id \in Tracked(js) \cup { jobId } |->
                       IF id = jobId THEN JobRecord(status, progress, error, at)
                                     ELSE js[id] ]
        oneHourAgo == at - OneHourMs
    IN  IF Cardinality(Tracked(written)) > RegistryHighWater
        THEN [ id \in { i \in Tracked(written) : ~(written[i].updated_at < oneHourAgo) }
                 |-> written[id] ]
        ELSE written

\* ------------------------------------------------------------------- files
\* Every temp file lives in TEMP_DIR; a path is its file name.
Path(jobId, suffix) == jobId \o suffix

OutputPath(jobId) == Path(jobId, "_output.mp4")
VideoPath(jobId) == Path(jobId, "_video.mp4")
AudioPath(jobId) == Path(jobId, "_audio.mp3")
SrtPath(jobId) == Path(jobId, ".srt")
AssPath(jobId) == Path(jobId, "_subs.ass")
AssetPath(jobId, n, ext) == Path(jobId, "_asset_" \o ToString(n) \o ext)

\* cleanupFiles: unlink each path that exists; a missing path is skipped.
CleanupFiles(fs, paths) == fs \ paths

\* --------------------------------------------------------------- downloads
\* extractR2Key: the object key of a URL under the configured public base.
ExtractR2Key(publicBase, url) ==
    IF publicBase = "" \/ url.base # publicBase THEN NoVal
    ELSE IF url.rest = "" THEN NoVal ELSE url.rest

\* A download: tried lists the transports attempted so far, in order.
Download(url, phase) == [ url |-> url, phase |-> phase, tried |-> << phase >> ]

Settled(d) == d.phase \in { "ok", "failed" }

DownloadError(url) == "download failed: " \o url.base \o "/" \o url.rest

\* -------------------------------------------------------------- render task
NewTask(req) ==
    [ jobId |-> req.job_id, req |-> req, pc |-> "start", tempFiles |-> {},
      dl |-> << >>, trace |-> << >>, errorPosts |-> 0, notify |-> "none",
      encoderRuns |-> 0, outcome |-> "pending" ]

\* The state one callback works on: the shared state and the task it runs.
World(task) ==
    [ jobs |-> jobs, held |-> held, files |-> files, active |-> activeJobs,
      crashed |-> crashed, task |-> task ]

\* A call of setJobStatus by the task (or, at admission, for it).
WriteStatus(m, status, progress, error) ==
    [ m EXCEPT !.jobs = SetJobStatus(@, now, m.task.jobId, status, progress, error),
               !.held = [ @ EXCEPT ![m.task.jobId] = @ \cup { status } ],
               !.task.trace = Append(@, status) ]

FinallyKeepsSlot(m) == m

\* .finally(() => { activeJobs--; })
Finally(m) == [ m EXCEPT !.active = @ - 1 ]

\* handleRender returns: its promise is fulfilled and the finally callback runs.
Return(m) == Finally([ m EXCEPT !.task.pc = "ended", !.task.outcome = "fulfilled" ])

\* The catch block of handleRender, then its return.
Catch(m, message) ==
    LET m1 == WriteStatus(m, "error", None, message)
        m2 == [ m1 EXCEPT !.files =
                  CleanupFiles(@, { OutputPath(m.task.jobId) } \cup m.task.tempFiles) ]
        m3 == IF Truthy(m.task.req.callback_url)
              THEN [ m2 EXCEPT !.task.errorPosts = @ + 1, !.task.notify = "pending" ]
              ELSE m2
    IN  Return(m3)

\* downloadFile up to its first wait: the write stream creates the file, and
\* the storage path is tried first for a URL of the storage provider.
StartDownload(m, url, p) ==
    LET phase == IF ExtractR2Key(base, url) # NoVal THEN "s3" ELSE "http"
    IN  [ m EXCEPT !.files = @ \cup { p },
                   !.task.dl = (p :> Download(url, phase)) @@ @ ]

\* getAvailableDiskSpace: None stands for Infinity.
GetAvailableDiskSpace(reading) ==
    IF reading = None THEN None
    ELSE IF Get(reading) = 0 THEN None
    ELSE reading

\* (freeSpace / 1024 / 1024).toFixed(0)
ToMB(bytes) == (bytes + 524288) \div 1048576

InsufficientSpace(bytes) ==
    "Insufficient disk space: " \o ToString(ToMB(bytes)) \o " MB free"

\* As Assets, but with a new path for every entry that names a source.
RECURSIVE AssetsPerEntry(_, _, _)
AssetsPerEntry(items, jobId, acc) ==
    IF items = << >> THEN acc
    ELSE LET item == Head(items)
             ext == IF item.source_url.ext = "" /\ item.type = "audio"
                    THEN ".mp3" ELSE item.source_url.ext
         IN  IF item.source_url # NoUrl
             THEN AssetsPerEntry(Tail(items), jobId,
                                 Append(acc, [ url |-> item.source_url,
                                               path |-> AssetPath(jobId, Len(acc), ext) ]))
             ELSE AssetsPerEntry(Tail(items), jobId, acc)

\* The asset map of a timeline: one local path per distinct source URL.
RECURSIVE Assets(_, _, _)
Assets(items, jobId, acc) ==
    IF items = << >> THEN acc
    ELSE LET item == Head(items)
             known == \E i \in 1..Len(acc) : acc[i].url = item.source_url
             ext == IF item.source_url.ext = "" /\ item.type = "audio"
                    THEN ".mp3" ELSE item.source_url.ext
         IN  IF item.source_url # NoUrl /\ ~known
             THEN Assets(Tail(items), jobId,
                         Append(acc, [ url |-> item.source_url,
                                       path |-> AssetPath(jobId, Len(acc), ext) ]))
             ELSE Assets(Tail(items), jobId, acc)

\* assetMap.get(seg.source_url): the local path an entry's input is read from.
AssetMapGet(assets, url) ==
    LET hits == { i \in 1..Len(assets) : assets[i].url = url }
    IN  IF hits = {} THEN NoVal ELSE assets[CHOOSE i \in hits : \A j \in hits : i <= j].path

RECURSIVE StartAll(_, _)
StartAll(m, assets) ==
    IF assets = << >> THEN m
    ELSE LET a == Head(assets)
             m1 == [ m EXCEPT !.task.tempFiles = @ \cup { a.path } ]
         IN  StartAll(StartDownload(m1, a.url, a.path), Tail(assets))

\* Flat mode from the metadata probe on (line 384).
Probe(m) ==
    IF Bound("getVideoMetadata")
    THEN [ m EXCEPT !.task.pc = "probe" ]
    ELSE Catch(m, ReferenceError("getVideoMetadata"))

\* Timeline mode once every download is in: subtitles, then the render step.
AfterTimelineDownloads(m) ==
    LET jobId == m.task.jobId
        timeline == Get(m.task.req.timeline)
        subItems == { i \in 1..Len(timeline) : timeline[i].type = "subtitle" }
        m1 == IF subItems # {}
              THEN [ m EXCEPT !.files = @ \cup { AssPath(jobId) },
                              !.task.tempFiles = @ \cup { AssPath(jobId) } ]
              ELSE m
        m2 == WriteStatus(m1, "rendering", Some(30), NoVal)
    IN  IF Bound("getOutputOptions")
        THEN [ m2 EXCEPT !.task.pc = "encoder", !.task.encoderRuns = @ + 1 ]
        ELSE Catch(m2, ReferenceError("getOutputOptions"))

\* Flat mode once both downloads are in: the subtitle source, then the probe.
AfterFlatDownloads(m) ==
    LET jobId == m.task.jobId
        req == m.task.req
        m1 == [ m EXCEPT !.task.tempFiles = @ \cup { SrtPath(jobId) } ]
    IN  IF req.subtitle_url # NoUrl
        THEN [ StartDownload(m1, req.subtitle_url, SrtPath(jobId))
                 EXCEPT !.task.pc = "subtitle" ]
        ELSE IF Truthy(req.subtitle_content)
        THEN Probe([ m1 EXCEPT !.files = @ \cup { SrtPath(jobId) } ])
        ELSE Probe(m)

TimelineStart(m) ==
    LET m1 == WriteStatus(m, "downloading", Some(10), NoVal)
        assets == Assets(Get(m.task.req.timeline), m.task.jobId, << >>)
        m2 == StartAll(m1, assets)
    IN  IF assets = << >>
        THEN AfterTimelineDownloads(m2)
        ELSE [ m2 EXCEPT !.task.pc = "downloads" ]

FlatStart(m) ==
    LET jobId == m.task.jobId
        req == m.task.req
        m1 == [ m EXCEPT !.task.tempFiles = { VideoPath(jobId), AudioPath(jobId) } ]
        m2 == StartDownload(m1, req.video_url, VideoPath(jobId))
        m3 == StartDownload(m2, req.audio_url, AudioPath(jobId))
    IN  [ m3 EXCEPT !.task.pc = "downloads" ]

\* handleRender from its call to its first wait for a download.
HandleRenderStart(m, reading) ==
    LET freeSpace == GetAvailableDiskSpace(reading)
    IN  IF Given(freeSpace) /\ Get(freeSpace) < MinFreeBytes
        THEN Catch(m, InsufficientSpace(Get(freeSpace)))
        ELSE IF Given(m.task.req.timeline) THEN TimelineStart(m)
        ELSE FlatStart(m)

\* As DownloadStep, but a failure of the storage transport fails the download.
DownloadStepNoFallback(m, p, o) ==
    LET d == m.task.dl[p]
    IN  IF d.phase = "s3"
        THEN IF o = "ok"
             THEN IF p \in m.files
                  THEN [ m EXCEPT !.task.dl[p].phase = "ok" ]
                  ELSE [ m EXCEPT !.crashed = TRUE ]
             ELSE [ m EXCEPT !.files = @ \ { p }, !.task.dl[p].phase = "failed" ]
        ELSE IF o = "ok" THEN [ m EXCEPT !.task.dl[p].phase = "ok" ]
        ELSE IF o = "fail" THEN [ m EXCEPT !.task.dl[p].phase = "failed" ]
        ELSE [ m EXCEPT !.files = @ \ { p }, !.task.dl[p].phase = "failed" ]

\* One event of a download: downloadFromR2 or downloadFromHttp settles.
DownloadStep(m, p, o) ==
    LET d == m.task.dl[p]
    IN  IF d.phase = "s3"
        THEN IF o = "ok"
             THEN IF p \in m.files
                  THEN [ m EXCEPT !.task.dl[p].phase = "ok" ]
                  ELSE [ m EXCEPT !.crashed = TRUE ]
             ELSE [ m EXCEPT !.files = (@ \ { p }) \cup { p },
                             !.task.dl[p].phase = "http",
                             !.task.dl[p].tried = Append(@, "http") ]
        ELSE IF o = "ok" THEN [ m EXCEPT !.task.dl[p].phase = "ok" ]
        ELSE IF o = "fail" THEN [ m EXCEPT !.task.dl[p].phase = "failed" ]
        ELSE [ m EXCEPT !.files = @ \ { p }, !.task.dl[p].phase = "failed" ]

\* As Resume, but going on as soon as one download is in.
ResumeAtFirst(m, p) ==
    LET d == m.task.dl[p]
        dl == m.task.dl
    IN  IF m.crashed \/ ~Settled(d) THEN m
        ELSE IF m.task.pc = "downloads"
        THEN IF d.phase = "failed" THEN Catch(m, DownloadError(d.url))
             ELSE IF \E q \in DOMAIN dl : dl[q].phase = "ok"
             THEN IF Given(m.task.req.timeline) THEN AfterTimelineDownloads(m)
                  ELSE AfterFlatDownloads(m)
             ELSE m
        ELSE IF m.task.pc = "subtitle" /\ p = SrtPath(m.task.jobId)
        THEN IF d.phase = "failed" THEN Catch(m, DownloadError(d.url))
             ELSE Probe(m)
        ELSE m

\* The continuation of handleRender that the settled download p resumes.
Resume(m, p) ==
    LET d == m.task.dl[p]
        dl == m.task.dl
    IN  IF m.crashed \/ ~Settled(d) THEN m
        ELSE IF m.task.pc = "downloads"
        THEN IF d.phase = "failed" THEN Catch(m, DownloadError(d.url))
             ELSE IF \A q \in DOMAIN dl : dl[q].phase = "ok"
             THEN IF Given(m.task.req.timeline) THEN AfterTimelineDownloads(m)
                  ELSE AfterFlatDownloads(m)
             ELSE m
        ELSE IF m.task.pc = "subtitle" /\ p = SrtPath(m.task.jobId)
        THEN IF d.phase = "failed" THEN Catch(m, DownloadError(d.url))
             ELSE Probe(m)
        ELSE m

\* ------------------------------------------------------------------ actions
NoResponse == [ code |-> 0, error |-> NoVal ]

Commit(m, t) ==
    /\ jobs' = m.jobs
    /\ held' = m.held
    /\ files' = m.files
    /\ activeJobs' = m.active
    /\ crashed' = m.crashed
    /\ tasks' = IF t > Len(tasks) THEN Append(tasks, m.task)
                ELSE [ tasks EXCEPT ![t] = m.task ]

Reject(code, error) ==
    /\ response' = [ code |-> code, error |-> error ]
    /\ UNCHANGED << jobs, held, activeJobs, tasks, files, now, base, crashed, cb, call >>

BusyAboveCap(n) == n > MAX_CONCURRENT_JOBS

\* if (activeJobs >= MAX_CONCURRENT_JOBS)
Busy(n) == n >= MAX_CONCURRENT_JOBS

\* As Post, but with the capacity check ahead of the validation.
PostBusyFirst(req, reading, limit) ==
    /\ ~crashed
    /\ IF Busy(activeJobs) THEN Reject(503, "Server busy")
       ELSE IF ~Truthy(req.job_id) THEN Reject(400, "Missing job_id")
       ELSE IF ~Given(req.timeline) /\ (req.video_url = NoUrl \/ req.audio_url = NoUrl)
       THEN Reject(400, "Missing requirements: provide timeline (V2) or video_url + audio_url (V1)")
       ELSE /\ Len(tasks) < limit
            /\ LET m1 == WriteStatus(World(NewTask(req)), "processing", Some(0), NoVal)
                   m2 == [ m1 EXCEPT !.active = @ + 1 ]
               IN  Commit(HandleRenderStart(m2, reading), Len(tasks) + 1)
            /\ response' = [ code |-> 200, error |-> NoVal ]
            /\ UNCHANGED << now, base, cb, call >>

\* POST /render with body req; reading is what the disk query yields.
Post(req, reading, limit) ==
    /\ ~crashed
    /\ IF ~Truthy(req.job_id) THEN Reject(400, "Missing job_id")
       \* (the message names the fields with backquotes around them)
       ELSE IF ~Given(req.timeline) /\ (req.video_url = NoUrl \/ req.audio_url = NoUrl)
       THEN Reject(400, "Missing requirements: provide timeline (V2) or video_url + audio_url (V1)")
       ELSE IF Busy(activeJobs) THEN Reject(503, "Server busy")
       ELSE /\ Len(tasks) < limit
            /\ LET m1 == WriteStatus(World(NewTask(req)), "processing", Some(0), NoVal)
                   m2 == [ m1 EXCEPT !.active = @ + 1 ]
               IN  Commit(HandleRenderStart(m2, reading), Len(tasks) + 1)
            /\ response' = [ code |-> 200, error |-> NoVal ]
            /\ UNCHANGED << now, base, cb, call >>

\* A download of task t settles with outcome o, and resumes the task.
DownloadSettles(t, p, o) ==
    /\ ~crashed
    /\ t \in 1..Len(tasks)
    /\ p \in DOMAIN tasks[t].dl
    /\ ~Settled(tasks[t].dl[p])
    /\ Commit(Resume(DownloadStep(World(tasks[t]), p, o), p), t)
    /\ UNCHANGED << response, now, base, cb, call >>

DownloadOutcomes == { "ok", "fail", "writer_error" }

\* The post of the error notification settles: the catch block's
\* axios.post(...).catch(() => { }) makes no further attempt.
ErrorPostSettles(t, ok) ==
    /\ ~crashed
    /\ t \in 1..Len(tasks)
    /\ tasks[t].notify = "pending"
    /\ tasks' = [ tasks EXCEPT ![t].notify = IF ok THEN "delivered" ELSE "dropped" ]
    /\ UNCHANGED << jobs, held, activeJobs, files, response, now, base, crashed, cb, call >>

Paths == UNION { DOMAIN tasks[t].dl : t \in 1..Len(tasks) }

Init ==
    /\ jobs = << >>
    /\ held = [ id \in JobIds |-> {} ]
    /\ activeJobs = 0
    /\ tasks = << >>
    /\ files = {}
    /\ response = NoResponse
    /\ now = 0
    /\ base \in { "", StorageBase }
    /\ crashed = FALSE
    /\ cb = << >>
    /\ call = << >>

Submit == \E req \in Requests, reading \in DiskReadings : Post(req, reading, MaxSubmissions)

Settle == \E t \in 1..Len(tasks), p \in Paths, o \in DownloadOutcomes : DownloadSettles(t, p, o)

Notify == \E t \in 1..Len(tasks), ok \in BOOLEAN : ErrorPostSettles(t, ok)

Next == Submit \/ Settle \/ Notify

Spec == Init /\ [][Next]_vars

\* Admission under load: single-download requests, default configuration.
AdmitInit == Init /\ base = ""

AdmitSubmit ==
    \E req \in AdmitRequests(Len(tasks)), reading \in AdmitDiskReadings :
        Post(req, reading, MaxAdmitted)

AdmitNext == AdmitSubmit \/ Settle

AdmitSpec == AdmitInit /\ [][AdmitNext]_vars

\* Flat jobs up to the cap, with enough disk space.
CapSubmit ==
    \E req \in CapRequests(Len(tasks)) : Post(req, Some(MinFreeBytes), MaxCapped)

CapNext == CapSubmit \/ Settle

CapSpec == AdmitInit /\ [][CapNext]_vars

\* A registry that fills up.  The server has run for an hour and tracks n
\* jobs that ended, the first k of them at time 0 and the others just now.
Backlog(n, k) ==
    [ id \in { "r" \o ToString(i) : i \in 1..n } |->
        JobRecord("error", None, "download failed",
                  IF id \in { "r" \o ToString(i) : i \in 1..k } THEN 0 ELSE OneHourMs) ]

RegistryInit ==
    /\ \E n \in { RegistryHighWater - 1, RegistryHighWater } :
          \E k \in { 0, 1, n } : jobs = Backlog(n, k)
    /\ held = [ id \in JobIds |-> {} ]
    /\ activeJobs = 0
    /\ tasks = << >>
    /\ files = {}
    /\ response = NoResponse
    /\ now = OneHourMs
    /\ base = ""
    /\ crashed = FALSE
    /\ cb = << >>
    /\ call = << >>

\* Time passes: a millisecond, or an hour.
Tick ==
    /\ \E d \in { 1, OneHourMs } :
          /\ now + d <= MaxHours * OneHourMs
          /\ (now + d) % OneHourMs <= MaxMillis
          /\ now' = now + d
    /\ UNCHANGED << jobs, held, activeJobs, tasks, files, response, base, crashed, cb, call >>

RegistrySubmit ==
    \E req \in AdmitRequests(Len(tasks)), reading \in AdmitDiskReadings :
        Post(req, reading, MaxRegistered)

RegistryNext == RegistrySubmit \/ Settle \/ Tick

RegistrySpec == RegistryInit /\ [][RegistryNext]_vars

\* One render pipeline at a time, over the richer request bodies.
PipelineSubmit ==
    \E req \in PipelineRequests, reading \in AdmitDiskReadings :
        Post(req, reading, MaxPipelines)

PipelineNext == PipelineSubmit \/ Settle \/ Notify

PipelineSpec == Init /\ [][PipelineNext]_vars

\* Every download eventually settles, one way or the other.
AllPaths ==
    UNION { { VideoPath(id), AudioPath(id), SrtPath(id), AssetPath(id, 0, ".mp4") }
            : id \in JobIds }

LiveSpec ==
    /\ Init
    /\ [][Next]_vars
    /\ \A t \in 1..MaxSubmissions, p \in AllPaths :
          WF_vars(\E o \in DownloadOutcomes : DownloadSettles(t, p, o))

\* One drive, whose reading is the same for as long as the server runs:
\* what the free-space query printed, None when the query failed.
DiskCall(reading) == [ fn |-> "getAvailableDiskSpace", reading |-> reading ]

DiskInit ==
    /\ call \in { DiskCall(reading) : reading \in DiskReadings }
    /\ jobs = << >>
    /\ held = [ id \in JobIds |-> {} ]
    /\ activeJobs = 0
    /\ tasks = << >>
    /\ files = {}
    /\ response = NoResponse
    /\ now = 0
    /\ base \in { "", StorageBase }
    /\ crashed = FALSE
    /\ cb = << >>

DiskSubmit == \E req \in PipelineRequests : Post(req, call.reading, MaxDiskJobs)

DiskNext == DiskSubmit \/ Settle \/ Notify

DiskSpec == DiskInit /\ [][DiskNext]_vars

\* ------------------------------------------------------- callback delivery
CallbackUrls == { "https://hook.example", "https://other.example" }

Delivery(url) ==
    [ url |-> url, pc |-> "post", attempt |-> 0, posts |-> 1, failures |-> 0,
      waits |-> << >>, error |-> NoVal ]

\* sendCallbackWithBackoff resumed when what it waits for settles: the post
\* (ok tells how), or the timer of sleep.
CallbackStep(d, ok) ==
    IF d.pc = "post"
    THEN IF ok THEN [ d EXCEPT !.pc = "returned" ]
         ELSE LET attempt == d.attempt + 1
                  delay == attempt * RetryUnitMs
                  failed == [ d EXCEPT !.attempt = attempt, !.failures = @ + 1 ]
              IN  IF attempt >= maxRetries THEN [ failed EXCEPT !.pc = "returned" ]
                  ELSE IF Bound("sleep")
                  THEN [ failed EXCEPT !.pc = "sleep", !.waits = Append(@, delay) ]
                  ELSE [ failed EXCEPT !.pc = "threw", !.error = ReferenceError("sleep") ]
    ELSE IF d.attempt < maxRetries
         THEN [ d EXCEPT !.pc = "post", !.posts = @ + 1 ]
         ELSE [ d EXCEPT !.pc = "returned" ]

\* A call of sendCallbackWithBackoff, up to its first post.
Deliver(url) ==
    /\ Len(cb) < MaxDeliveries
    /\ cb' = Append(cb, Delivery(url))
    /\ UNCHANGED << jobs, held, activeJobs, tasks, files, response, now, base, crashed, call >>

CallbackSettles(i, ok) ==
    /\ i \in 1..Len(cb)
    /\ cb[i].pc \in { "post", "sleep" }
    /\ cb' = [ cb EXCEPT ![i] = CallbackStep(cb[i], ok) ]
    /\ UNCHANGED << jobs, held, activeJobs, tasks, files, response, now, base, crashed, call >>

CallbackCall == \E url \in CallbackUrls : Deliver(url)

CallbackResume == \E i \in 1..Len(cb), ok \in BOOLEAN : CallbackSettles(i, ok)

CallbackNext == CallbackCall \/ CallbackResume

CallbackSpec == AdmitInit /\ [][CallbackNext]_vars

\* ----------------------------------------------------------------- numbers
\* A JavaScript number is held as the integer count of its thousandths, so
\* 0.25 is 250 and 1.0 is One.  Pixel sizes, frame counts, frames per
\* second and the two numbers of an aspect ratio are plain integers.
One == 1000

NumTruthy(opt) == Given(opt) /\ Get(opt) # 0

Max(x, y) == IF x > y THEN x ELSE y
Min(x, y) == IF x < y THEN x ELSE y

\* Math.max(lo, Math.min(hi, x))
Clamp(lo, hi, x) == Max(lo, Min(hi, x))

Abs(x) == IF x < 0 THEN 0 - x ELSE x

RECURSIVE Pad(_, _)
Pad(n, width) == IF width = 0 THEN "" ELSE Pad(n \div 10, width - 1) \o ToString(n % 10)

RECURSIVE Fraction(_, _)
Fraction(f, width) ==
    IF f = 0 THEN ""
    ELSE IF f % 10 = 0 THEN Fraction(f \div 10, width - 1)
    ELSE "." \o Pad(f, width)

\* Number.prototype.toString inside a template literal: the shortest decimal
\* of a number held as a count of one-th parts, one being 10 ^ digits.
Decimal(x, one, digits) ==
    (IF x < 0 THEN "-" ELSE "")
        \o ToString(Abs(x) \div one) \o Fraction(Abs(x) % one, digits)

Str(x) == Decimal(x, One, 3)

\* (num / den).toFixed(2) of a value that is not negative, as its count of
\* hundredths: the nearest one, the larger of two equally near.
Hundredths(num, den) == (2 * num + 10 * den) \div (20 * den)

Fixed2(h) == ToString(h \div 100) \o "." \o Pad(h % 100, 2)

\* (intensity / frames).toFixed(6), as its count of millionths.
Millionths(intensity, frames) == (2000 * intensity + frames) \div (2 * frames)

Fixed6(u) == ToString(u \div 1000000) \o "." \o Pad(u % 1000000, 6)

\* Math.round(x): the nearest integer, the larger of two equally near.
Round(num, den) == (2 * num + den) \div (2 * den)

\* ---------------------------------------------------------- effect compilers
\* One stage of a filter chain: the string pushed, with the filter it names
\* and the values written into it.
Stage(filter, text, vals) == [ filter |-> filter, text |-> text, vals |-> vals ]

Chain(vf, af) == [ vf |-> vf, af |-> af ]

Atempo(text, factor) == Stage("atempo", "atempo=" \o text, [ factor |-> factor ])

ApplySpeedOneStretch(speed, vf, af) ==
    IF ~NumTruthy(speed) \/ Get(speed) = One
    THEN Chain(vf, af)
    ELSE LET s == Clamp(250, 4 * One, Get(speed))
         IN  Chain(Append(vf, Stage("setpts", "setpts=PTS/" \o Str(s), [ factor |-> s ])),
                   Append(af, Atempo(Str(Clamp(500, 2 * One, s)), Clamp(500, 2 * One, s))))

ApplySpeed(speed, vf, af) ==
    IF ~NumTruthy(speed) \/ Get(speed) = One
    THEN Chain(vf, af)
    ELSE LET s == Clamp(250, 4 * One, Get(speed))
             v == Append(vf, Stage("setpts", "setpts=PTS/" \o Str(s), [ factor |-> s ]))
         IN  IF s > 500 /\ s <= 2 * One
             THEN Chain(v, Append(af, Atempo(Str(s), s)))
             ELSE IF s > 2 * One
             THEN Chain(v, af \o << Atempo("2.0", 2 * One),
                                    Atempo(Str(s \div 2), s \div 2) >>)
             ELSE Chain(v, Append(af, Atempo(Str(Max(500, s)), Max(500, s))))

\* crop.aspect_ratio is "aw:ah"; split(':').map(Number) gives the two numbers.
Ratio(aw, ah) == [ aw |-> aw, ah |-> ah ]

Crop(ratio, width, height, position) ==
    [ aspect_ratio |-> ratio, width |-> width, height |-> height, position |-> position ]

ApplyCrop(crop, srcW, srcH, vf) ==
    IF ~Given(crop) THEN vf
    ELSE LET c == Get(crop)
             pos == IF Truthy(c.position) THEN c.position ELSE "center"
             aw == ToString(Get(c.aspect_ratio).aw)
             ah == ToString(Get(c.aspect_ratio).ah)
             cropW == "ih*" \o aw \o "/" \o ah
             cropH == "iw*" \o ah \o "/" \o aw
             xExpr == IF pos = "center" THEN "(iw-" \o cropW \o ")/2" ELSE "0"
             yExpr == IF pos = "bottom" THEN "ih-" \o cropH
                      ELSE IF pos = "top" THEN "0"
                      ELSE "(ih-" \o cropH \o ")/2"
             v1 == IF ~Given(c.aspect_ratio) THEN vf
                   ELSE IF srcW * Get(c.aspect_ratio).ah > Get(c.aspect_ratio).aw * srcH
                   THEN Append(vf, Stage("crop", "crop=" \o cropW \o ":ih:" \o xExpr \o ":0",
                                         [ aspect_ratio |-> c.aspect_ratio ]))
                   ELSE Append(vf, Stage("crop", "crop=iw:" \o cropH \o ":0:" \o yExpr,
                                         [ aspect_ratio |-> c.aspect_ratio ]))
             w == ToString(Get(c.width))
             h == ToString(Get(c.height))
         IN  IF NumTruthy(c.width) /\ NumTruthy(c.height)
             THEN v1 \o << Stage("scale", "scale=" \o w \o ":" \o h
                                     \o ":force_original_aspect_ratio=decrease",
                                 [ width |-> c.width, height |-> c.height ]),
                           Stage("pad", "pad=" \o w \o ":" \o h \o ":(ow-iw)/2:(oh-ih)/2:black",
                                 [ width |-> c.width, height |-> c.height ]) >>
             ELSE IF NumTruthy(c.width)
             THEN Append(v1, Stage("scale", "scale=" \o w \o ":-2",
                                   [ width |-> c.width, height |-> None ]))
             ELSE IF NumTruthy(c.height)
             THEN Append(v1, Stage("scale", "scale=-2:" \o h,
                                   [ width |-> None, height |-> c.height ]))
             ELSE v1

Meta(width, height, duration, fps) ==
    [ width |-> width, height |-> height, duration |-> duration, fps |-> fps ]

Or(opt, default) == IF NumTruthy(opt) THEN Get(opt) ELSE default

Zoom(type, intensity) == [ type |-> type, intensity |-> intensity ]

ApplyZoom(zoom, meta, vf) ==
    IF ~Given(zoom) THEN vf
    ELSE LET z == Get(zoom)
             intensity == Clamp(50, 500, Or(z.intensity, 200))
             maxZoom == Str(One + intensity)
             fps == Or(meta.fps, 30)
             frames == Round(Or(meta.duration, 10 * One) * fps, One)
             step == Fixed6(Millionths(intensity, frames))
             d == ":d=" \o ToString(frames)
             y == ":y='ih/2-(ih/zoom/2)'"
             centre == ":x='iw/2-(iw/zoom/2)'" \o y
             tail == ":s=" \o ToString(Or(meta.width, 1080)) \o "x"
                         \o ToString(Or(meta.height, 1920)) \o ":fps=" \o ToString(fps)
             type == IF Truthy(z.type) THEN z.type ELSE "in"
             vals == [ intensity |-> intensity, frames |-> frames ]
         IN  IF type = "in"
             THEN Append(vf, Stage("zoompan", "zoompan=z='min(zoom+" \o step \o ","
                                     \o maxZoom \o ")'" \o d \o centre \o tail, vals))
             ELSE IF type = "out"
             THEN Append(vf, Stage("zoompan", "zoompan=z='if(eq(on,1)," \o maxZoom
                                     \o ",max(zoom-" \o step \o ",1))'" \o d \o centre \o tail,
                                   vals))
             ELSE IF type = "pan_left"
             THEN Append(vf, Stage("zoompan", "zoompan=z='" \o maxZoom \o "'" \o d
                                     \o ":x='iw/" \o maxZoom \o "-iw/" \o maxZoom
                                     \o "/zoom*on/" \o ToString(frames) \o "'" \o y \o tail,
                                   vals))
             ELSE IF type = "pan_right"
             THEN Append(vf, Stage("zoompan", "zoompan=z='" \o maxZoom \o "'" \o d
                                     \o ":x='iw/" \o maxZoom \o "/zoom*on/"
                                     \o ToString(frames) \o "'" \o y \o tail, vals))
             ELSE vf

Color(brightness, contrast, saturation, gamma, preset) ==
    [ brightness |-> brightness, contrast |-> contrast, saturation |-> saturation,
      gamma |-> gamma, preset |-> preset ]

COLOR_PRESETS ==
    [ cinematic |-> Color(Some(20), Some(1150), Some(850), Some(950), NoVal),
      warm |-> Color(Some(50), Some(1050), Some(1200), Some(One), NoVal),
      cool |-> Color(Some(0), Some(1100), Some(900), Some(1050), NoVal),
      vintage |-> Color(Some(80), Some(900), Some(600), Some(1100), NoVal),
      dramatic |-> Color(Some(0 - 50), Some(1400), Some(1100), Some(850), NoVal),
      bw |-> Color(Some(0), Some(1200), Some(0), Some(One), NoVal),
      vibrant |-> Color(Some(30), Some(1100), Some(1500), Some(One), NoVal),
      muted |-> Color(Some(20), Some(950), Some(500), Some(1050), NoVal),
      noir |-> Color(Some(0 - 100), Some(1500), Some(0), Some(800), NoVal) ]

\* { ...COLOR_PRESETS[c.preset], ...c }: a key of c wins over the preset's.
Spread(under, over) ==
    [ k \in DOMAIN under |-> IF k = "preset" THEN over[k]
                             ELSE IF Given(over[k]) THEN over[k] ELSE under[k] ]

RECURSIVE Join(_, _)
Join(parts, sep) ==
    IF parts = << >> THEN ""
    ELSE IF Len(parts) = 1 THEN parts[1]
    ELSE parts[1] \o sep \o Join(Tail(parts), sep)

Part(key, opt, identity) ==
    IF Given(opt) /\ Get(opt) # identity THEN << key \o "=" \o Str(Get(opt)) >> ELSE << >>

Written(opt, identity) == IF Given(opt) /\ Get(opt) # identity THEN opt ELSE None

ApplyColor(color, vf) ==
    IF ~Given(color) THEN vf
    ELSE LET given == Get(color)
             c == IF Truthy(given.preset) /\ given.preset \in DOMAIN COLOR_PRESETS
                  THEN Spread(COLOR_PRESETS[given.preset], given)
                  ELSE given
             parts == Part("brightness", c.brightness, 0) \o Part("contrast", c.contrast, One)
                      \o Part("saturation", c.saturation, One) \o Part("gamma", c.gamma, One)
         IN  IF Len(parts) > 0
             THEN Append(vf, Stage("eq", "eq=" \o Join(parts, ":"),
                                   [ brightness |-> Written(c.brightness, 0),
                                     contrast |-> Written(c.contrast, One),
                                     saturation |-> Written(c.saturation, One),
                                     gamma |-> Written(c.gamma, One) ]))
             ELSE vf

Fade(in, out) == [ in |-> in, out |-> out ]

\* Math.max(0, effectiveDuration - out).toFixed(2), as a count of hundredths;
\* effectiveDuration is duration / speed when speed is truthy.
FadeOutStart(duration, speed, out) ==
    LET s == IF NumTruthy(speed) THEN Get(speed) ELSE One
        num == IF s < 0 THEN out * s - duration * One ELSE duration * One - out * s
    IN  IF num <= 0 THEN 0 ELSE Hundredths(num, Abs(s))

FadeStage(filter, t, start, st, d) ==
    Stage(filter, filter \o "=t=" \o t \o ":st=" \o start \o ":d=" \o Str(d),
          [ t |-> t, st |-> st, d |-> d ])

ApplyFadeVideoOnly(fade, duration, speed, vf, af) ==
    IF ~Given(fade) THEN Chain(vf, af)
    ELSE LET f == Get(fade)
             start == FadeOutStart(duration, speed, Get(f.out))
         IN  Chain(vf \o (IF NumTruthy(f.in) /\ Get(f.in) > 0
                          THEN << FadeStage("fade", "in", "0", 0, Get(f.in)) >> ELSE << >>)
                      \o (IF NumTruthy(f.out) /\ Get(f.out) > 0
                          THEN << FadeStage("fade", "out", Fixed2(start), 10 * start,
                                            Get(f.out)) >>
                          ELSE << >>),
                   af)

ApplyFade(fade, duration, speed, vf, af) ==
    IF ~Given(fade) THEN Chain(vf, af)
    ELSE LET f == Get(fade)
             start == FadeOutStart(duration, speed, Get(f.out))
             c1 == IF NumTruthy(f.in) /\ Get(f.in) > 0
                   THEN Chain(Append(vf, FadeStage("fade", "in", "0", 0, Get(f.in))),
                              Append(af, FadeStage("afade", "in", "0", 0, Get(f.in))))
                   ELSE Chain(vf, af)
         IN  IF NumTruthy(f.out) /\ Get(f.out) > 0
             THEN Chain(Append(c1.vf, FadeStage("fade", "out", Fixed2(start), 10 * start,
                                                Get(f.out))),
                        Append(c1.af, FadeStage("afade", "out", Fixed2(start), 10 * start,
                                                Get(f.out))))
             ELSE c1

Audio(volume, fade_in, fade_out, normalize) ==
    [ volume |-> volume, fade_in |-> fade_in, fade_out |-> fade_out,
      normalize |-> normalize ]

ApplyAudioEffects(audio, duration, speed, af, hasSyncedFade) ==
    IF ~Given(audio) THEN af
    ELSE LET a == Get(audio)
             start == FadeOutStart(duration, speed, Get(a.fade_out))
             volume == Clamp(0, 3 * One, Get(a.volume))
         IN  (IF Given(a.volume) /\ Get(a.volume) # One
              THEN Append(af, Stage("volume", "volume=" \o Str(volume),
                                    [ volume |-> volume ]))
              ELSE af)
             \o (IF ~hasSyncedFade /\ NumTruthy(a.fade_in) /\ Get(a.fade_in) > 0
                 THEN << FadeStage("afade", "in", "0", 0, Get(a.fade_in)) >> ELSE << >>)
             \o (IF ~hasSyncedFade /\ NumTruthy(a.fade_out) /\ Get(a.fade_out) > 0
                 THEN << FadeStage("afade", "out", Fixed2(start), 10 * start,
                                   Get(a.fade_out)) >>
                 ELSE << >>)
             \o (IF a.normalize
                 THEN << Stage("loudnorm", "loudnorm=I=-14:TP=-1:LRA=11", << >>) >>
                 ELSE << >>)

Effects(speed, crop, zoom, color, fade, audio, watermark) ==
    [ speed |-> speed, crop |-> crop, zoom |-> zoom, color |-> color, fade |-> fade,
      audio |-> audio, watermark |-> watermark ]

NeverSynced(fade) == FALSE

\* !!(effects.fade && (effects.fade.in || effects.fade.out))
HasSyncedFade(fade) == Given(fade) /\ (NumTruthy(Get(fade).in) \/ NumTruthy(Get(fade).out))

Filters(vf, af, needsWatermarkInput) ==
    [ videoFilters |-> vf, audioFilters |-> af, needsWatermarkInput |-> needsWatermarkInput ]

BuildFilterChainFadeFirst(effects, videoMeta) ==
    LET duration == Or(videoMeta.duration, 10 * One)
        faded == ApplyFade(effects.fade, duration, effects.speed, << >>, << >>)
        sped == ApplySpeed(effects.speed, faded.vf, faded.af)
        cropped == ApplyCrop(effects.crop, Or(videoMeta.width, 1080),
                             Or(videoMeta.height, 1920), sped.vf)
    IN  Filters(ApplyColor(effects.color, ApplyZoom(effects.zoom, videoMeta, cropped)),
                ApplyAudioEffects(effects.audio, duration, effects.speed, sped.af,
                                  HasSyncedFade(effects.fade)),
                Given(effects.watermark) /\ Truthy(Get(effects.watermark).url))

BuildFilterChain(effects, videoMeta) ==
    LET duration == Or(videoMeta.duration, 10 * One)
        width == Or(videoMeta.width, 1080)
        height == Or(videoMeta.height, 1920)
        sped == ApplySpeed(effects.speed, << >>, << >>)
        cropped == ApplyCrop(effects.crop, width, height, sped.vf)
        zoomed == ApplyZoom(effects.zoom, videoMeta, cropped)
        graded == ApplyColor(effects.color, zoomed)
        faded == ApplyFade(effects.fade, duration, effects.speed, graded, sped.af)
    IN  Filters(faded.vf,
                ApplyAudioEffects(effects.audio, duration, effects.speed, faded.af,
                                  HasSyncedFade(effects.fade)),
                Given(effects.watermark) /\ Truthy(Get(effects.watermark).url))

\* The speeds a payload may carry: absent, or a multiple of 0.25 from -0.25
\* up, which takes in 0, the range [0.25, 4.0] and values on either side.
Speeds == { None } \cup { Some(250 * k) : k \in (0 - 1)..MaxSpeedSteps }

Crops ==
    { None,
      Some(Crop(Some(Ratio(9, 16)), None, None, NoVal)),
      Some(Crop(Some(Ratio(16, 9)), Some(720), Some(1280), "bottom")),
      Some(Crop(None, Some(0), Some(480), "top")) }

Zooms ==
    { None,
      Some(Zoom(NoVal, None)),
      Some(Zoom("out", Some(900))),
      Some(Zoom("spin", Some(10))) }

Colors ==
    { None,
      Some(Color(None, None, None, None, NoVal)),
      Some(Color(None, None, None, None, "cinematic")),
      Some(Color(Some(2 * One), Some(One), None, Some(0), "warm")),
      Some(Color(Some(0), None, Some(1200), None, "sepia")) }

Fades ==
    { None,
      Some(Fade(None, None)),
      Some(Fade(Some(0), Some(0))),
      Some(Fade(Some(One), Some(One))),
      Some(Fade(Some(0 - One), None)),
      Some(Fade(None, Some(12 * One))) }

Audios ==
    { None,
      Some(Audio(Some(One), None, None, FALSE)),
      Some(Audio(Some(5 * One), Some(One), Some(2 * One), TRUE)),
      Some(Audio(None, Some(0 - One), Some(20 * One), FALSE)) }

Watermarks == { None, Some([ url |-> "https://cdn.example/logo.png" ]) }

Payloads ==
    { Effects(speed, crop, zoom, color, fade, audio, watermark) :
        speed \in Speeds, crop \in Crops, zoom \in Zooms, color \in Colors,
        fade \in Fades, audio \in Audios, watermark \in Watermarks }

\* What the metadata probe reports: nothing, or a 7.5 s landscape clip.
Metas ==
    { Meta(None, None, None, None),
      Meta(Some(1920), Some(1080), Some(7500), Some(25)) }

\* A call of buildFilterChain and what it returned, None until it returns.
FilterCall(effects, videoMeta) ==
    [ fn |-> "buildFilterChain", effects |-> effects, videoMeta |-> videoMeta,
      out |-> None ]

EffectsInit ==
    /\ call \in { FilterCall(effects, videoMeta) : effects \in Payloads, videoMeta \in Metas }
    /\ jobs = << >>
    /\ held = [ id \in JobIds |-> {} ]
    /\ activeJobs = 0
    /\ tasks = << >>
    /\ files = {}
    /\ response = NoResponse
    /\ now = 0
    /\ base = ""
    /\ crashed = FALSE
    /\ cb = << >>

BuildFilterChainCall ==
    /\ call.out = None
    /\ call' = [ call EXCEPT !.out = Some(BuildFilterChain(call.effects, call.videoMeta)) ]
    /\ UNCHANGED << jobs, held, activeJobs, tasks, files, response, now, base, crashed, cb >>

EffectsNext == BuildFilterChainCall

EffectsSpec == EffectsInit /\ [][EffectsNext]_vars

\* ------------------------------------------------------------ timeline graph
\* A timeline entry with its window.  Its times are held as counts of
\* ten-thousandths of a second, None when the entry does not give one.
Segment(type, url, start, end) ==
    [ type |-> type, source_url |-> url, start |-> start, end |-> end ]

\* ${seg.start}
Seconds(opt) == IF Given(opt) THEN Decimal(Get(opt), 10 * One, 4) ELSE "undefined"

\* Math.round((seg.start || 0) * 1000)
DelayMs(start) == Round(IF NumTruthy(start) THEN Get(start) ELSE 0, 10)

Label(prefix, idx) == "[" \o prefix \o ToString(idx) \o "]"

OfType(timeline, type) ==
    LET Is(t) == t.type = type IN SelectSeq(timeline, Is)

FirstInput(k) == 0

\* inputCount when the k-th video segment is added.
VideoInput(k) == k - 1

AudioInputFromZero(n, k) == k - 1

\* inputCount when the k-th audio segment is added, after n video segments.
AudioInput(n, k) == n + k - 1

\* The timeline's subtitle filter, when it has subtitle entries.
SubtitleFilter(jobId) == "subtitles='" \o AssPath(jobId) \o "':fontsdir='fonts'"

Graph(inputs, filterComplex, maps) ==
    [ inputs |-> inputs, filterComplex |-> filterComplex, maps |-> maps ]

\* The executor of the Promise in timeline mode, up to cmd.complexFilter: the
\* inputs added to the command, the filter graph and the streams mapped.
TimelineGraph(timeline, assets, subtitleFilter) ==
    LET videoSegments == OfType(timeline, "video")
        audioSegments == OfType(timeline, "audio")
        n == Len(videoSegments)
        m == Len(audioSegments)
        vStreams == [ k \in 1..n |-> Label("v", k - 1) ]
        aStreams == [ k \in 1..m |-> Label("a", k - 1) ]
        trims == [ k \in 1..n |->
                     Stage("trim",
                           "[" \o ToString(VideoInput(k)) \o ":v]trim="
                               \o Seconds(videoSegments[k].start) \o ":"
                               \o Seconds(videoSegments[k].end)
                               \o ",setpts=PTS-STARTPTS" \o vStreams[k],
                           [ input |-> VideoInput(k), start |-> videoSegments[k].start,
                             end |-> videoSegments[k].end, out |-> vStreams[k] ]) ]
        concat == Stage("concat",
                        Join(vStreams, "") \o "concat=n=" \o ToString(n) \o ":v=1:a=0[vconcat]",
                        [ ins |-> vStreams, n |-> n, out |-> "[vconcat]" ])
        overlay == IF Given(subtitleFilter)
                   THEN Stage("subtitles", "[vconcat]" \o Get(subtitleFilter) \o "[vsubs]",
                              [ ins |-> << "[vconcat]" >>, out |-> "[vsubs]" ])
                   ELSE Stage("null", "[vconcat]null[vfinal]",
                              [ ins |-> << "[vconcat]" >>, out |-> "[vfinal]" ])
        delays == [ k \in 1..m |->
                      Stage("adelay",
                            "[" \o ToString(AudioInput(n, k)) \o ":a]adelay="
                                \o ToString(DelayMs(audioSegments[k].start)) \o "|"
                                \o ToString(DelayMs(audioSegments[k].start)) \o aStreams[k],
                            [ input |-> AudioInput(n, k),
                              ms |-> DelayMs(audioSegments[k].start), out |-> aStreams[k] ]) ]
        amix == Stage("amix",
                      Join(aStreams, "") \o "amix=inputs=" \o ToString(m)
                          \o ":duration=longest[outa]",
                      [ ins |-> aStreams, n |-> m, duration |-> "longest", out |-> "[outa]" ])
    IN  Graph([ k \in 1..n |-> AssetMapGet(assets, videoSegments[k].source_url) ]
                  \o [ k \in 1..m |-> AssetMapGet(assets, audioSegments[k].source_url) ],
              trims \o (IF n > 0 THEN << concat, overlay >> ELSE << >>)
                    \o delays \o (IF m > 1 THEN << amix >> ELSE << >>),
              (IF n > 0 THEN << overlay.vals.out >> ELSE << >>)
                  \o (IF m = 1 THEN << aStreams[1] >>
                      ELSE IF m > 1 THEN << "[outa]" >> ELSE << >>))

\* The entries a timeline of GraphSpec is made of: clips and sounds of several
\* sources and windows, and a subtitle.
Segments ==
    { Segment("video", WebVideo, Some(0), Some(5 * 10 * One)),
      Segment("video", WebClip, Some(0), Some(3 * 10 * One)),
      Segment("video", WebVideo, Some(15000), Some(22500)),
      Segment("audio", WebAudio, None, None),
      Segment("audio", StoredAudio, Some(12504), Some(8 * 10 * One)),
      Segment("audio", WebAudio, Some(316), None),
      Segment("subtitle", NoUrl, Some(0), Some(10 * One)) }

Timelines == UNION { [ 1..k -> Segments ] : k \in 0..MaxEntries }

\* The graph built for a timeline job and, once built, the graph.
GraphCall(jobId, timeline) ==
    [ fn |-> "timelineGraph", jobId |-> jobId, timeline |-> timeline, out |-> None ]

GraphInit ==
    /\ call \in { GraphCall("j1", timeline) : timeline \in Timelines }
    /\ jobs = << >>
    /\ held = [ id \in JobIds |-> {} ]
    /\ activeJobs = 0
    /\ tasks = << >>
    /\ files = {}
    /\ response = NoResponse
    /\ now = 0
    /\ base = ""
    /\ crashed = FALSE
    /\ cb = << >>

BuildGraph ==
    /\ call.out = None
    /\ call' = [ call EXCEPT !.out =
                   Some(TimelineGraph(call.timeline,
                                      Assets(call.timeline, call.jobId, << >>),
                                      IF OfType(call.timeline, "subtitle") # << >>
                                      THEN Some(SubtitleFilter(call.jobId)) ELSE None)) ]
    /\ UNCHANGED << jobs, held, activeJobs, tasks, files, response, now, base, crashed, cb >>

GraphNext == BuildGraph

GraphSpec == GraphInit /\ [][GraphNext]_vars


\* ---------------------------------------------------------------- subtitles
\* The server at rest, as the harnesses of the pure functions leave it.
Idle ==
    /\ jobs = << >>
    /\ held = [ id \in JobIds |-> {} ]
    /\ activeJobs = 0
    /\ tasks = << >>
    /\ files = {}
    /\ response = NoResponse
    /\ now = 0
    /\ base = ""
    /\ crashed = FALSE
    /\ cb = << >>

\* A text is the sequence of its characters, each a one-character string.
\* The times of a cue are whole milliseconds, which is what the three-digit
\* fraction of an SRT timestamp gives.
Cue(start, end, text) == [ start |-> start, end |-> end, text |-> text ]

\* text.split(' '): the words from position i on, word being the one begun.
RECURSIVE SplitWords(_, _, _)
SplitWords(text, i, word) ==
    IF i > Len(text) THEN << word >>
    ELSE IF text[i] = " " THEN << word >> \o SplitWords(text, i + 1, << >>)
    ELSE SplitWords(text, i + 1, Append(word, text[i]))

\* The loop of wrapText from word i on: the lines it pushes.
RECURSIVE WrapWords(_, _, _, _)
WrapWords(words, i, currentLine, maxChars) ==
    IF i > Len(words) THEN << currentLine >>
    ELSE IF Len(currentLine) + 1 + Len(words[i]) <= maxChars
    THEN WrapWords(words, i + 1, currentLine \o << " " >> \o words[i], maxChars)
    ELSE << currentLine >> \o WrapWords(words, i + 1, words[i], maxChars)

\* The line break of the styled document, one token of the wrapped text.
LineBreak == "\\N"

\* lines.join('\\N')
RECURSIVE JoinLines(_)
JoinLines(lines) ==
    IF Len(lines) = 1 THEN lines[1]
    ELSE lines[1] \o << LineBreak >> \o JoinLines(Tail(lines))

\* Cuts every line at maxChars characters, inside a word where it must.
RECURSIVE HardWrap(_, _)
HardWrap(text, maxChars) ==
    IF Len(text) <= Max(maxChars, 1) THEN text
    ELSE SubSeq(text, 1, Max(maxChars, 1)) \o << LineBreak >>
             \o HardWrap(SubSeq(text, Max(maxChars, 1) + 1, Len(text)), maxChars)

WrapText(text, maxChars) ==
    IF Len(text) <= maxChars THEN text
    ELSE LET words == SplitWords(text, 1, << >>)
         IN  JoinLines(WrapWords(words, 2, words[1], maxChars))

\* Math.min(Math.floor(videoWidth / (fontSize * 0.6)), 50), sizes in pixels
MaxChars(videoWidth, fontSize) == Min((10 * videoWidth) \div (6 * fontSize), 50)

\* Writes the unscaled time of the cue.
CentisUnscaled(time, speed, below) == time \div 10

\* Math.floor(100 * t) for t = time * (1.0 / speed) seconds, the time in ms
\* and the speed in thousandths, both positive.  The product is a binary
\* number: where 100 * t is a whole number the computed one may lie just
\* below it (0.29 * 100 is 28.999...), and the floor is then one less.
Centis(time, speed, below) ==
    LET exact == (100 * time) \div speed
        whole == (100 * time) % speed = 0
    IN  IF below /\ whole /\ exact >= 1 THEN exact - 1 ELSE exact

\* formatAssTime of a time of so many whole centiseconds
FormatAssTime(centis) ==
    LET h == centis \div 360000
        m == (centis \div 6000) % 60
        s == (centis \div 100) % 60
        cs == centis % 100
    IN  [ h |-> h, m |-> m, s |-> s, cs |-> cs,
          text |-> ToString(h) \o ":" \o Pad(m, 2) \o ":" \o Pad(s, 2) \o "." \o Pad(cs, 2) ]

\* The override tags options.animation puts before the text; the primary
\* colour is the default one, white.
AnimationTags(animation, videoWidth, videoHeight) ==
    LET centerX == ToString(videoWidth \div 2)
        bottomY == ToString(videoHeight - 50)
        startY == ToString(videoHeight + 50)
    IN  IF animation = Some("pop")
        THEN "{\\fad(50,50)}{\\fscx0\\fscy0}{\\t(0,150,\\fscx100\\fscy100)}"
        ELSE IF animation = Some("slide_up")
        THEN "{\\fad(100,0)}{\\move(" \o centerX \o "," \o startY \o ","
                 \o centerX \o "," \o bottomY \o ",0,300)}"
        ELSE IF animation = Some("karaoke")
        THEN "{\\1c&HFFFF00&}{\\t(0,200,\\1c&HFFFFFF)}"
        ELSE IF animation = Some("fade")
        THEN "{\\fad(200,200)}"
        ELSE ""

SubtitleOptions(font_size, animation) ==
    [ font_size |-> font_size, animation |-> animation ]

\* generateAss: the play resolution, the font size of the style and one
\* Dialogue event per cue.  below[i] says for the start and the end of cue i
\* whether the binary product fell below the whole centisecond.
GenerateAss(subtitles, options, videoWidth, videoHeight, speed, below) ==
    LET fontSize == Or(options.font_size, 24)
        maxChars == MaxChars(videoWidth, fontSize)
    IN  [ playRes |-> << videoWidth, videoHeight >>,
          fontSize |-> fontSize,
          events |->
              [ i \in 1..Len(subtitles) |->
                  [ start |-> FormatAssTime(Centis(subtitles[i].start, speed, below[i].start)),
                    end |-> FormatAssTime(Centis(subtitles[i].end, speed, below[i].end)),
                    tags |-> AnimationTags(options.animation, videoWidth, videoHeight),
                    text |-> WrapText(subtitles[i].text, maxChars) ] ] ]

\* A timestamp as the regular expression of parseSrt captures it.
Stamp(h, m, s, ms) == [ h |-> h, m |-> m, s |-> s, ms |-> ms ]
NoStamp == Stamp(0, 0, 0, 0)

RECURSIVE PadChars(_, _)
PadChars(n, width) ==
    IF width = 0 THEN << >> ELSE Append(PadChars(n \div 10, width - 1), ToString(n % 10))

StampChars(stamp) ==
    PadChars(stamp.h, 2) \o << ":" >> \o PadChars(stamp.m, 2) \o << ":" >>
        \o PadChars(stamp.s, 2) \o << "," >> \o PadChars(stamp.ms, 3)

\* One token of a subtitle text: a line, or a line terminator.  The kind of
\* a line says which of the tests of parseSrt it passes: "number" is all
\* digits, "time" matches the timestamp expression and holds its groups,
\* "arrow" holds '-->' without matching, "text" holds none of these.
Token(kind, text, from, to) == [ kind |-> kind, text |-> text, from |-> from, to |-> to ]
Eol(chars) == Token("eol", << chars >>, NoStamp, NoStamp)
NumberLine(digits) == Token("number", digits, NoStamp, NoStamp)
TimeLine(from, to) ==
    Token("time", StampChars(from) \o << " ", "-", "-", ">", " " >> \o StampChars(to), from, to)
ArrowLine == Token("arrow", << "1", " ", "-", "-", ">", " ", "2" >>, NoStamp, NoStamp)
TextLine(text) == Token("text", text, NoStamp, NoStamp)
EmptyLine == TextLine(<< >>)

\* The text of the lines given, each ended by eol but the last.
RECURSIVE Content(_, _)
Content(lines, eol) ==
    IF lines = << >> THEN << >>
    ELSE (IF lines[1] = EmptyLine THEN << >> ELSE << lines[1] >>)
             \o (IF Len(lines) = 1 THEN << >>
                 ELSE << Eol(eol) >> \o Content(Tail(lines), eol))

\* .replace(/\r\n/g, '\n').replace(/\r/g, '\n')
Normalised(content) ==
    [ i \in 1..Len(content) |->
        IF content[i].kind = "eol" THEN Eol("\n") ELSE content[i] ]

\* content.split('\n\n') from token i on, block being the piece begun
RECURSIVE SplitBlocks(_, _, _)
SplitBlocks(content, i, block) ==
    IF i > Len(content) THEN << block >>
    ELSE IF i < Len(content) /\ content[i] = Eol("\n") /\ content[i + 1] = Eol("\n")
    THEN << block >> \o SplitBlocks(content, i + 2, << >>)
    ELSE SplitBlocks(content, i + 1, Append(block, content[i]))

\* block.trim(), the lines themselves having no blank ends
RECURSIVE Trim(_)
Trim(block) ==
    IF block = << >> THEN block
    ELSE IF block[1].kind = "eol" THEN Trim(Tail(block))
    ELSE IF block[Len(block)].kind = "eol" THEN Trim(SubSeq(block, 1, Len(block) - 1))
    ELSE block

\* block.split('\n') from token i on, line being the line begun if any
RECURSIVE SplitLines(_, _, _)
SplitLines(block, i, line) ==
    IF i > Len(block) THEN << line >>
    ELSE IF block[i].kind = "eol" THEN << line >> \o SplitLines(block, i + 1, EmptyLine)
    ELSE SplitLines(block, i + 1, block[i])

\* parseTime of four captured groups, in ms
ParseTime(stamp) == 3600000 * stamp.h + 60000 * stamp.m + 1000 * stamp.s + stamp.ms

\* textLines.join(' ')
RECURSIVE JoinText(_)
JoinText(textLines) ==
    IF textLines = << >> THEN << >>
    ELSE IF Len(textLines) = 1 THEN textLines[1].text
    ELSE textLines[1].text \o << " " >> \o JoinText(Tail(textLines))

\* The body of the loop of parseSrt: the cues one block adds.
ParseBlock(block) ==
    LET lines == SplitLines(Trim(block), 1, EmptyLine)
        numbered == /\ Len(lines) >= 2
                    /\ lines[1].kind = "number"
                    /\ lines[2].kind \in { "time", "arrow" }
        timeLine == IF numbered THEN lines[2] ELSE lines[1]
        textLines == IF numbered THEN SubSeq(lines, 3, Len(lines)) ELSE Tail(lines)
    IN  IF Len(lines) < 2 THEN << >>
        ELSE IF timeLine.kind # "time" THEN << >>
        ELSE << Cue(ParseTime(timeLine.from), ParseTime(timeLine.to), JoinText(textLines)) >>

RECURSIVE ParseBlocks(_)
ParseBlocks(blocks) ==
    IF blocks = << >> THEN << >> ELSE ParseBlock(blocks[1]) \o ParseBlocks(Tail(blocks))

\* Gives up at the first block that adds no cue.
RECURSIVE ParseUntilMalformed(_)
ParseUntilMalformed(blocks) ==
    IF blocks = << >> \/ ParseBlock(blocks[1]) = << >> THEN << >>
    ELSE ParseBlock(blocks[1]) \o ParseUntilMalformed(Tail(blocks))

ParseSrtFailFast(srtContent) == ParseUntilMalformed(SplitBlocks(Normalised(srtContent), 1, << >>))

ParseSrt(srtContent) == ParseBlocks(SplitBlocks(Normalised(srtContent), 1, << >>))

\* The lines of SrtSpec and the three line terminators.
SrtLines ==
    { EmptyLine, NumberLine(<< "7" >>), ArrowLine, TextLine(<< "h", "i" >>),
      TimeLine(Stamp(0, 0, 1, 19), Stamp(0, 0, 3, 500)),
      TimeLine(Stamp(1, 2, 3, 4), Stamp(1, 2, 4, 0)) }

Eols == { "\n", "\r\n", "\r" }

SrtCall(lines, eol) ==
    [ fn |-> "parseSrt", lines |-> lines, srtContent |-> Content(lines, eol), out |-> None ]

SrtInit ==
    /\ call \in { SrtCall(lines, eol) :
                    lines \in UNION { [ 1..k -> SrtLines ] : k \in 0..MaxLines },
                    eol \in Eols }
    /\ Idle

ParseSrtCall ==
    /\ call.out = None
    /\ call' = [ call EXCEPT !.out = Some(ParseSrt(call.srtContent)) ]
    /\ UNCHANGED << jobs, held, activeJobs, tasks, files, response, now, base, crashed, cb >>

SrtNext == ParseSrtCall

SrtSpec == SrtInit /\ [][SrtNext]_vars

\* Cue times of AssSpec, ms: the whole seconds and times around them whose
\* thousandths do and do not fall on a centisecond.
CueTimes ==
    { 1000 * k + f : k \in 0..MaxCueSeconds, f \in { 19, 290 } }

Hello == << "h", "i", " ", "y", "o", "u" >>

CueLists ==
    UNION { [ 1..k -> { Cue(start, start + 1000, Hello) : start \in CueTimes } ]
              : k \in 0..MaxCues }

\* The speeds generateAss is given: the positive quarters.
AssSpeeds == { 250 * k : k \in 1..MaxSpeedSteps }

AssCall(subtitles, options, videoWidth, videoHeight, speed, below) ==
    [ fn |-> "generateAss", subtitles |-> subtitles, options |-> options,
      videoWidth |-> videoWidth, videoHeight |-> videoHeight, speed |-> speed,
      below |-> below, out |-> None ]

AssInit ==
    /\ call \in { AssCall(subtitles, SubtitleOptions(None, None), 1080, 1920, speed, below) :
                    subtitles \in CueLists,
                    speed \in AssSpeeds,
                    below \in [ 1..MaxCues -> [ start : BOOLEAN, end : BOOLEAN ] ] }
    /\ Idle

GenerateAssCall ==
    /\ call.out = None
    /\ call' = [ call EXCEPT !.out =
                   Some(GenerateAss(call.subtitles, call.options, call.videoWidth,
                                    call.videoHeight, call.speed, call.below)) ]
    /\ UNCHANGED << jobs, held, activeJobs, tasks, files, response, now, base, crashed, cb >>

AssNext == GenerateAssCall

AssSpec == AssInit /\ [][AssNext]_vars

\* The texts of WrapSpec: every text of up to MaxTextLen letters and spaces,
\* and one of sixty characters, longer than the cap of fifty.
RECURSIVE Repeated(_, _)
Repeated(text, times) == IF times = 0 THEN << >> ELSE text \o Repeated(text, times - 1)

CueTexts ==
    UNION { [ 1..n -> { "a", "b", " " } ] : n \in 0..MaxTextLen }
        \cup { Repeated(<< "a", "b", "a", "b", " " >>, 12) }

\* The font sizes of WrapSpec: none given, and sizes that leave a frame
\* 1080 wide room for 4, 3, 2 and 1 characters.
FontSizes == { None, Some(400), Some(500), Some(700), Some(1500) }

WrapInit ==
    /\ call \in { AssCall(<< Cue(1019, 3500, text) >>, SubtitleOptions(font_size, animation),
                          1080, 1920, One, << [ start |-> FALSE, end |-> FALSE ] >>) :
                    text \in CueTexts,
                    font_size \in FontSizes,
                    animation \in { None, Some("pop"), Some("slide_up"), Some("karaoke"),
                                    Some("fade") } }
    /\ Idle

WrapSpec == WrapInit /\ [][AssNext]_vars


\* ----------------------------------------------------------------- metadata
\* A frame rate string as parseFps reads it: missing (undefined or empty),
\* two parts around a slash, or one part.  A part is the number it converts
\* to, None where the conversion gives NaN; the one part of a decimal string
\* counts thousandths.
NoFps == [ form |-> "missing", num |-> None, den |-> None ]
RationalFps(num, den) == [ form |-> "rational", num |-> num, den |-> den ]
DecimalFps(value) == [ form |-> "decimal", num |-> value, den |-> Some(One) ]

\* A number as the quotient of two integers, the second positive; NaN apart.
Quotient(num, den) == [ nan |-> FALSE, num |-> num, den |-> den ]
NaN == [ nan |-> TRUE, num |-> 0, den |-> 1 ]

ParseFps(fpsStr) ==
    IF fpsStr.form = "missing" THEN Quotient(30, 1)
    ELSE IF fpsStr.form = "rational"
    THEN IF Given(fpsStr.den) /\ Get(fpsStr.den) > 0
         THEN IF Given(fpsStr.num) THEN Quotient(Get(fpsStr.num), Get(fpsStr.den)) ELSE NaN
         ELSE Quotient(30, 1)
    ELSE IF ~Given(fpsStr.num) \/ Get(fpsStr.num) <= 0 THEN Quotient(30, 1)
    ELSE Quotient(Get(fpsStr.num), One)

\* The parts of the strings of FpsSpec: NaN, the small numbers from -1 on
\* and the two parts of the NTSC rate.
FpsParts == { None, Some(30000), Some(1001) } \cup { Some(k) : k \in -1..MaxFps }

FpsStrings ==
    { NoFps } \cup { RationalFps(num, den) : num \in FpsParts, den \in FpsParts }
              \cup { DecimalFps(value) : value \in FpsParts }

FpsCall(fpsStr) == [ fn |-> "parseFps", fpsStr |-> fpsStr, out |-> None ]

FpsInit ==
    /\ call \in { FpsCall(fpsStr) : fpsStr \in FpsStrings }
    /\ Idle

ParseFpsCall ==
    /\ call.out = None
    /\ call' = [ call EXCEPT !.out = Some(ParseFps(call.fpsStr)) ]
    /\ UNCHANGED << jobs, held, activeJobs, tasks, files, response, now, base, crashed, cb >>

FpsNext == ParseFpsCall

FpsSpec == FpsInit /\ [][FpsNext]_vars


\* --------------------------------------------------------- flat render step
\* buildSubtitleFilter: the stage, the path of the styled document and the
\* document written there; None for each when the text holds no cue.
BuildSubtitleFilter(srtContent, options, jobId, videoMeta, speed, below) ==
    LET subs == ParseSrt(srtContent)
        nothing == [ filter |-> None, assFilePath |-> None, written |-> None ]
    IN  IF srtContent = << >> THEN nothing
        ELSE IF subs = << >> THEN nothing
        ELSE [ filter |-> Some(SubtitleFilter(jobId)),
               assFilePath |-> Some(AssPath(jobId)),
               written |-> Some(GenerateAss(subs, options, Or(videoMeta.width, 1080),
                                            Or(videoMeta.height, 1920), speed, below)) ]

\* The flat branch from the filter chain to the encoder command (lines 387
\* to 435) for a job without text overlay: the command, the flag the
\* compiler returned, and what the subtitle compiler was given and wrote.
\* srtContent is None for a job without subtitle source.
FlatCommand(jobId, effects, videoMeta, srtContent, below) ==
    LET chain == BuildFilterChain(effects, videoMeta)
        speed == Or(effects.speed, One)
        sub == IF Given(srtContent)
               THEN BuildSubtitleFilter(Get(srtContent), SubtitleOptions(None, None), jobId,
                                        videoMeta, speed, below)
               ELSE BuildSubtitleFilter(<< >>, SubtitleOptions(None, None), jobId,
                                        videoMeta, speed, below)
        videoFilters ==
            chain.videoFilters
                \o (IF Given(sub.filter)
                    THEN << Stage("subtitles", Get(sub.filter), [ speed |-> speed ]) >>
                    ELSE << >>)
        audioFilters == chain.audioFilters
        vText == "[0:v]" \o Join([ k \in 1..Len(videoFilters) |-> videoFilters[k].text ], ",")
                     \o "[vOut]"
        aText == "[1:a]" \o Join([ k \in 1..Len(audioFilters) |-> audioFilters[k].text ], ",")
                     \o "[aOut]"
    IN  [ inputs |-> << VideoPath(jobId), AudioPath(jobId) >>,
          videoFilters |-> videoFilters,
          audioFilters |-> audioFilters,
          complexFilter |-> (IF videoFilters # << >> THEN << vText >> ELSE << >>)
                                \o (IF audioFilters # << >> THEN << aText >> ELSE << >>),
          maps |-> << IF videoFilters # << >> THEN "[vOut]" ELSE "0:v",
                      IF audioFilters # << >> THEN "[aOut]" ELSE "1:a" >>,
          needsWatermarkInput |-> chain.needsWatermarkInput,
          tempFiles |-> IF Given(sub.assFilePath) THEN { Get(sub.assFilePath) } ELSE { },
          written |-> sub.written ]

\* The effects of CommandSpec: every speed that is not negative, every fade,
\* with and without a watermark.
CommandPayloads ==
    { Effects(speed, None, None, None, fade, None, watermark) :
        speed \in { s \in Speeds : s = None \/ Get(s) >= 0 },
        fade \in Fades, watermark \in Watermarks }

\* Its subtitle sources: none, a text without cue and a text of one cue.
CommandSubtitles ==
    { None,
      Some(Content(<< TextLine(Hello) >>, "\n")),
      Some(Content(<< NumberLine(<< "1" >>),
                      TimeLine(Stamp(0, 0, 1, 19), Stamp(0, 0, 3, 500)),
                      TextLine(Hello) >>, "\n")) }

CommandCall(jobId, effects, videoMeta, srtContent, below) ==
    [ fn |-> "flatCommand", jobId |-> jobId, effects |-> effects, videoMeta |-> videoMeta,
      srtContent |-> srtContent, below |-> below, out |-> None ]

CommandInit ==
    /\ call \in { CommandCall("j1", effects, videoMeta, srtContent, below) :
                    effects \in CommandPayloads, videoMeta \in Metas,
                    srtContent \in CommandSubtitles,
                    below \in [ 1..1 -> [ start : BOOLEAN, end : BOOLEAN ] ] }
    /\ Idle

FlatCommandCall ==
    /\ call.out = None
    /\ call' = [ call EXCEPT !.out =
                   Some(FlatCommand(call.jobId, call.effects, call.videoMeta,
                                    call.srtContent, call.below)) ]
    /\ UNCHANGED << jobs, held, activeJobs, tasks, files, response, now, base, crashed, cb >>

CommandNext == FlatCommandCall

CommandSpec == CommandInit /\ [][CommandNext]_vars

\* ------------------------------------------------------------------ claims
Running == { t \in 1..Len(tasks) : tasks[t].pc # "ended" }

Ended == { t \in 1..Len(tasks) : tasks[t].pc = "ended" }

Valid(req) ==
    Truthy(req.job_id) /\ (Given(req.timeline) \/ (req.video_url # NoUrl /\ req.audio_url # NoUrl))

\* C1 as stated: with 5 admitted jobs still running, every submission is
\* answered 503 'Server busy', and the rejection adds no job record, starts
\* no render task and leaves the counter as it was.
C1_AnySubmissionBusy ==
    [][ \A req \in AdmitRequests(Len(tasks)), reading \in AdmitDiskReadings :
          (Cardinality(Running) = MAX_CONCURRENT_JOBS /\ Post(req, reading, MaxAdmitted))
          => /\ response' = [ code |-> 503, error |-> "Server busy" ]
             /\ UNCHANGED << jobs, tasks, activeJobs, files >> ]_vars

\* C1: with 5 admitted jobs still running, every submission is rejected: one
\* that passes validation with 503 'Server busy', one that fails validation
\* with 400 as at any other time; the rejection adds no job record, starts no
\* render task and leaves the counter and the temp files as they were.
C1_RejectedAtCap ==
    [][ \A req \in AdmitRequests(Len(tasks)), reading \in AdmitDiskReadings :
          (Cardinality(Running) = MAX_CONCURRENT_JOBS /\ Post(req, reading, MaxAdmitted))
          => /\ Valid(req) => response' = [ code |-> 503, error |-> "Server busy" ]
             /\ ~Valid(req) => response'.code = 400
             /\ UNCHANGED << jobs, tasks, activeJobs, files >> ]_vars

\* Five tasks are running and a valid submission has just been turned away.
C1_Witness ==
    /\ Cardinality(Running) = MAX_CONCURRENT_JOBS
    /\ response = [ code |-> 503, error |-> "Server busy" ]

\* C2: the counter equals the number of admitted render tasks that have not
\* ended, and lies between 0 and the cap; a task that ended, however it
\* ended, holds no slot.
C2_CounterIsRunning ==
    /\ activeJobs = Cardinality(Running)
    /\ activeJobs \in 0..MAX_CONCURRENT_JOBS
    /\ activeJobs = Len(tasks) - Cardinality(Ended)

\* Five are running after tasks ended in each way: space rejection, failed
\* download, exception in the render step.
C2_Witness ==
    /\ activeJobs = MAX_CONCURRENT_JOBS
    /\ \E t \in Ended : \E p \in DOMAIN tasks[t].dl : tasks[t].dl[p].phase = "failed"

\* C3: every admitted job is eventually recorded as done or error by its
\* render task, which ends without rejecting.
C3_EventuallyTerminal ==
    \A t \in 1..MaxSubmissions :
        [](Len(tasks) >= t
             => <>(/\ Len(tasks) >= t
                   /\ tasks[t].pc = "ended"
                   /\ tasks[t].outcome = "fulfilled"
                   /\ tasks[t].trace # << >>
                   /\ tasks[t].trace[Len(tasks[t].trace)] \in { "done", "error" }))

\* C4: callback delivery never ends by throwing into the task that awaits
\* it (where the exception would be recorded as the job's error after done).
C4_DeliveryNeverThrows == \A i \in 1..Len(cb) : cb[i].pc # "threw"

Rank(status) ==
    CASE status = "processing" -> 0
      [] status = "downloading" -> 1
      [] status = "rendering" -> 2
      [] status \in { "uploading", "finalizing" } -> 3
      [] OTHER -> 4

\* C5: the status recorded for a job identifier is never earlier in the
\* lifecycle than a status recorded for it before.
C5_StatusMonotonic ==
    \A id \in DOMAIN jobs : \A s \in held[id] : Rank(jobs[id].status) >= Rank(s)

TaskPaths(t) ==
    { OutputPath(tasks[t].jobId) } \cup tasks[t].tempFiles \cup DOMAIN tasks[t].dl

SoleUser(t) == \A u \in 1..Len(tasks) : u # t => tasks[u].jobId # tasks[t].jobId

\* C6: once a render task has ended, none of the temp files it created or
\* recorded exists (stated for a task whose job id no other task uses).
C6_NoTempFileLeft ==
    \A t \in Ended : SoleUser(t) => TaskPaths(t) \cap files = {}

\* C7: the failure handling of a job runs only after every download of the
\* job has settled.
C7_FailureAfterAllSettled ==
    \A t \in Ended : \A p \in DOMAIN tasks[t].dl : Settled(tasks[t].dl[p])

\* C8: two render tasks that run at the same time use disjoint temp paths.
C8_DisjointPaths ==
    \A t, u \in Running : t # u => TaskPaths(t) \cap TaskPaths(u) = {}

Ended_cb(d) == d.pc \in { "returned", "threw" }

\* C9: at most 3 posts; none after a success; exactly 3, then abandoned,
\* when every post failed.
C9_ThreeAttempts ==
    \A i \in 1..Len(cb) :
        /\ cb[i].posts <= maxRetries
        /\ cb[i].posts <= cb[i].failures + 1
        /\ (Ended_cb(cb[i]) /\ cb[i].failures = cb[i].posts)
              => (cb[i].posts = maxRetries /\ cb[i].pc = "returned")

\* C10: after the k-th failed post, k < 3, delivery has waited k x 5 s; no
\* wait follows the third failure.
C10_WaitsGrow ==
    \A i \in 1..Len(cb) :
        cb[i].waits = [ k \in 1..(IF cb[i].failures < maxRetries THEN cb[i].failures
                                  ELSE maxRetries - 1) |-> k * RetryUnitMs ]

\* The posts of delivery d that have settled, in order: TRUE for a success.
Seen(d) ==
    [ k \in 1..(d.failures + (IF d.pc = "returned" /\ d.failures < maxRetries THEN 1 ELSE 0))
        |-> k > d.failures ]

\* The time, in ms after the call, at which post k of d was made: the waits
\* before it added up (request latency ignored).
RECURSIVE PostTime(_, _)
PostTime(d, k) == IF k <= 1 THEN 0 ELSE PostTime(d, k - 1) + d.waits[k - 1]

FailsTwiceThenSucceeds == << FALSE, FALSE, TRUE >>

IsPrefix(s, t) == Len(s) <= Len(t) /\ \A k \in 1..Len(s) : s[k] = t[k]

\* C11: a delivery to an endpoint that fails twice and then succeeds does not
\* end before its third post; the posts are made at 0 s, 5 s and 10 s and
\* the delivery returns after the third.
C11_FailFailSucceed ==
    \A i \in 1..Len(cb) :
        (Ended_cb(cb[i]) /\ IsPrefix(Seen(cb[i]), FailsTwiceThenSucceeds))
            => /\ Seen(cb[i]) = FailsTwiceThenSucceeds
               /\ cb[i].pc = "returned"
               /\ cb[i].posts = 3
               /\ [ k \in 1..3 |-> PostTime(cb[i], k) ] = << 0, RetryUnitMs, 2 * RetryUnitMs >>

\* C12: the error notification of a job is dropped only after 3 failed
\* attempts, as the success notification is.
C12_ErrorNotificationRetried ==
    \A t \in 1..Len(tasks) :
        tasks[t].notify = "dropped" => tasks[t].errorPosts = maxRetries

\* The task got past the disk check and every download it issued succeeded.
InputsReady(task) ==
    /\ task.dl # << >> \/ "downloading" \in { task.trace[k] : k \in 1..Len(task.trace) }
    /\ \A p \in DOMAIN task.dl : task.dl[p].phase = "ok"

\* C13: no render task starts the encoder more than once, and a task that
\* has ended with all its inputs ready has started it exactly once.
C13_EncoderOnce ==
    \A t \in 1..Len(tasks) :
        /\ tasks[t].encoderRuns <= 1
        /\ (tasks[t].pc = "ended" /\ InputsReady(tasks[t])) => tasks[t].encoderRuns = 1

AtRenderStep(task) ==
    \/ task.pc \in { "probe", "encoder" }
    \/ task.encoderRuns > 0
    \/ "rendering" \in { task.trace[k] : k \in 1..Len(task.trace) }

\* C14: a render task is at its render step (status rendering written,
\* encoder started) only with every download it issued completed; and when a
\* download of a running task fails, that step records the job as error with
\* the failure's message, ends the task, and the encoder was never started.
C14_RenderAfterDownloads ==
    /\ [](\A t \in 1..Len(tasks) :
            AtRenderStep(tasks[t]) => \A p \in DOMAIN tasks[t].dl : tasks[t].dl[p].phase = "ok")
    /\ [][ \A t \in 1..Len(tasks), p \in Paths, o \in DownloadOutcomes :
             ( /\ DownloadSettles(t, p, o)
               /\ tasks[t].pc # "ended"
               /\ tasks'[t].dl[p].phase = "failed" )
             => /\ jobs'[tasks[t].jobId].status = "error"
                /\ jobs'[tasks[t].jobId].error = DownloadError(tasks[t].dl[p].url)
                /\ tasks'[t].pc = "ended"
                /\ ~AtRenderStep(tasks'[t]) ]_vars

\* A timeline task reached its render step with two downloads in.
C14_Witness ==
    \E t \in 1..Len(tasks) :
        /\ AtRenderStep(tasks[t])
        /\ Cardinality(DOMAIN tasks[t].dl) >= 2

\* A download failed while the other was still in flight, and failed the job.
C14_FailureWitness ==
    \E t \in 1..Len(tasks) :
        /\ tasks[t].pc = "ended"
        /\ \E p, q \in DOMAIN tasks[t].dl :
              tasks[t].dl[p].phase = "failed" /\ ~Settled(tasks[t].dl[q])

IsTimelineTask(task) == Given(task.req.timeline) /\ task.dl # << >>

SourceRefs(task) ==
    LET timeline == Get(task.req.timeline)
    IN  { timeline[i].source_url : i \in 1..Len(timeline) } \ { NoUrl }

\* C15: a timeline task issues one download per distinct source reference
\* of its entries, each reference to a local path of its own, and the input
\* of every entry that names a reference is the path that reference was
\* downloaded to.
C15_OneDownloadPerReference ==
    \A t \in 1..Len(tasks) :
        IsTimelineTask(tasks[t]) =>
            LET task == tasks[t]
                timeline == Get(task.req.timeline)
                assets == Assets(timeline, task.jobId, << >>)
            IN  /\ Cardinality(DOMAIN task.dl) = Cardinality(SourceRefs(task))
                /\ { task.dl[p].url : p \in DOMAIN task.dl } = SourceRefs(task)
                /\ \A i \in 1..Len(timeline) :
                      timeline[i].source_url # NoUrl =>
                        /\ AssetMapGet(assets, timeline[i].source_url) \in DOMAIN task.dl
                        /\ task.dl[AssetMapGet(assets, timeline[i].source_url)].url
                              = timeline[i].source_url

\* A timeline of four entries naming two sources, each twice.
C15_Witness ==
    \E t \in 1..Len(tasks) :
        /\ IsTimelineTask(tasks[t])
        /\ Len(Get(tasks[t].req.timeline)) = 4
        /\ Cardinality(DOMAIN tasks[t].dl) = 2

Stored(url) == ExtractR2Key(base, url) # NoVal

ValidationErrors ==
    { "Missing job_id",
      "Missing requirements: provide timeline (V2) or video_url + audio_url (V1)" }

\* C17: a submission without job_id, or with neither a timeline nor both
\* video_url and audio_url, is answered 400 with a validation error at any
\* load, and changes neither the registry, the counter, the render tasks nor
\* the temp files.
C17_InvalidRejected ==
    [][ \A req \in AdmitRequests(Len(tasks)), reading \in AdmitDiskReadings :
          (~Valid(req) /\ Post(req, reading, MaxAdmitted))
          => /\ response'.code = 400
             /\ response'.error \in ValidationErrors
             /\ UNCHANGED << jobs, held, activeJobs, tasks, files >> ]_vars

\* A validation error was answered with the server at its cap.
C17_Witness ==
    /\ response.code = 400
    /\ response.error \in ValidationErrors
    /\ activeJobs = MAX_CONCURRENT_JOBS

ActiveStates == { "downloading", "rendering", "uploading", "finalizing" }

\* The jobs whose recorded state is one of the active ones.
Occupying == { id \in DOMAIN jobs : jobs[id].status \in ActiveStates }

\* C18: a valid submission is answered 503 'Server busy' exactly when the
\* number of jobs recorded as downloading, rendering, uploading or finalizing
\* has reached the cap.
C18_BusyIffActiveStates ==
    [][ \A req \in CapRequests(Len(tasks)) :
          (Valid(req) /\ Post(req, Some(MinFreeBytes), MaxCapped))
          => ( response' = [ code |-> 503, error |-> "Server busy" ]
                 <=> Cardinality(Occupying) >= MAX_CONCURRENT_JOBS ) ]_vars

\* A render task for which every operation it attempted succeeded, and which
\* has ended.
Completed(task) == task.pc = "ended" /\ InputsReady(task)

\* C19: a flat-mode task that completes with every operation succeeding has
\* recorded, in this order, the admission state ('processing' in the code,
\* queued in the lifecycle), downloading, rendering, uploading and done.
C19_FlatLifecycle ==
    \A t \in 1..Len(tasks) :
        (Completed(tasks[t]) /\ ~Given(tasks[t].req.timeline))
            => tasks[t].trace
                 = << "processing", "downloading", "rendering", "uploading", "done" >>

\* C20: a timeline-mode task that completes with every operation succeeding
\* has recorded, in this order, the admission state, downloading, rendering,
\* finalizing and done, and never uploading.
C20_TimelineLifecycle ==
    \A t \in 1..Len(tasks) :
        (Completed(tasks[t]) /\ Given(tasks[t].req.timeline))
            => tasks[t].trace
                 = << "processing", "downloading", "rendering", "finalizing", "done" >>

Terminal(status) == status \in { "done", "error" }

\* C21: from one step to the next, the progress recorded for a job that is
\* and stays in a non-terminal state does not decrease.
C21_ProgressNonDecreasing ==
    [][ \A id \in DOMAIN jobs :
          ( /\ id \in DOMAIN jobs'
            /\ ~Terminal(jobs[id].status) /\ ~Terminal(jobs'[id].status)
            /\ Given(jobs[id].progress) /\ Given(jobs'[id].progress) )
          => Get(jobs'[id].progress) >= Get(jobs[id].progress) ]_vars

\* The job ids a status may be written for: a tracked old one, a tracked
\* recent one, and new ones.
WriteIds == { "r1", "r99", "j1", "j2" }

\* C22: whatever setJobStatus call is made in a reachable state: the job
\* written is tracked afterwards with its new record; if more than 100 jobs
\* are tracked afterwards, none of them was last updated more than an hour
\* ago; and if at most 100 jobs are tracked counting the job written, no job
\* is removed and no other record changes.
C22_SweepContract ==
    \A id \in WriteIds :
        LET after == SetJobStatus(jobs, now, id, "processing", Some(0), NoVal)
            counted == Tracked(jobs) \cup { id }
        IN  /\ id \in Tracked(after)
            /\ after[id] = JobRecord("processing", Some(0), NoVal, now)
            /\ Cardinality(Tracked(after)) > RegistryHighWater
                  => \A j \in Tracked(after) : after[j].updated_at >= now - OneHourMs
            /\ Cardinality(counted) <= RegistryHighWater
                  => /\ Tracked(after) = counted
                     /\ \A j \in Tracked(jobs) \ { id } : after[j] = jobs[j]
            /\ Tracked(after) \subseteq counted

\* A sweep has removed the oldest job while a newer one is still tracked.
C22_Witness ==
    /\ "r1" \notin Tracked(jobs)
    /\ "j1" \in Tracked(jobs)
    /\ Cardinality(Tracked(jobs)) > 1

\* --------------------------------------------------- claims on the compilers
\* The call of EffectsSpec has returned, and what it returned.
Returned == call.out # None
Out == Get(call.out)

Indexes(stages, filter) == { i \in 1..Len(stages) : stages[i].filter = filter }

\* The audio fade stages of one direction, by position.
Afades(af, t) == { i \in Indexes(af, "afade") : af[i].vals.t = t }

\* The fade category is active: fade.in or fade.out is set.
FadeActive(effects) ==
    Given(effects.fade)
        /\ (NumTruthy(Get(effects.fade).in) \/ NumTruthy(Get(effects.fade).out))

Requested(opt) == NumTruthy(opt) /\ Get(opt) > 0

\* C23: while the fade category is active the audio chain holds no fade stage
\* of the audio category, whatever audio.fade_in and audio.fade_out say: its
\* fade stages are those of the fade category alone.  While it is not
\* active, the chain holds one fade-in of audio.fade_in seconds if that was
\* requested, one fade-out of audio.fade_out seconds if that was, no other.
C23_AudioFadeSuppressed ==
    Returned =>
        LET e == call.effects
            af == Out.audioFilters
        IN  IF FadeActive(e)
            THEN /\ \A i \in Afades(af, "in") : Requested(Get(e.fade).in)
                                                 /\ af[i].vals.d = Get(Get(e.fade).in)
                 /\ \A i \in Afades(af, "out") : Requested(Get(e.fade).out)
                                                  /\ af[i].vals.d = Get(Get(e.fade).out)
                 /\ Cardinality(Afades(af, "in")) <= 1
                 /\ Cardinality(Afades(af, "out")) <= 1
            ELSE /\ Cardinality(Afades(af, "in"))
                       = (IF Given(e.audio) /\ Requested(Get(e.audio).fade_in) THEN 1 ELSE 0)
                 /\ Cardinality(Afades(af, "out"))
                       = (IF Given(e.audio) /\ Requested(Get(e.audio).fade_out) THEN 1 ELSE 0)
                 /\ \A i \in Afades(af, "in") :
                        af[i].vals.d = Get(Get(e.audio).fade_in) /\ af[i].vals.st = 0
                 /\ \A i \in Afades(af, "out") : af[i].vals.d = Get(Get(e.audio).fade_out)

\* An active fade met audio fades that were asked for, and only the synced
\* pair came out.
C23_Witness ==
    /\ Returned
    /\ FadeActive(call.effects)
    /\ Requested(Get(call.effects.fade).in)
    /\ Given(call.effects.audio)
    /\ Requested(Get(call.effects.audio).fade_in)
    /\ Requested(Get(call.effects.audio).fade_out)
    /\ Cardinality(Afades(Out.audioFilters, "in")) = 1

\* The factors of the audio stretch stages, in order.
RECURSIVE Factors(_)
Factors(af) ==
    IF af = << >> THEN << >>
    ELSE (IF Head(af).filter = "atempo" THEN << Head(af).vals.factor >> ELSE << >>)
             \o Factors(Tail(af))

\* The stretch stages multiply to exactly s.
MultipliesTo(factors, s) ==
    \/ factors = << >> /\ s = One
    \/ Len(factors) = 1 /\ factors[1] = s
    \/ Len(factors) = 2 /\ factors[1] * factors[2] = s * One

\* C24 as stated: for every speed s in [0.25, 4.0], the products of at most
\* two factors of [0.5, 2.0], the stretch stages multiply to exactly s, and
\* for s in (2.0, 4.0] they are 2.0 then s / 2.0.
C24_StretchProduct ==
    Returned =>
        LET s == Get(call.effects.speed)
            factors == Factors(Out.audioFilters)
        IN  (Given(call.effects.speed) /\ s >= 250 /\ s <= 4 * One)
                => /\ MultipliesTo(factors, s)
                   /\ s > 2 * One => (Len(factors) = 2 /\ factors[1] = 2 * One
                                                       /\ 2 * factors[2] = s)

\* C24 as the code has it: the stretch stages multiply to exactly s for every
\* speed s in [0.5, 4.0], being 2.0 then s / 2.0 for s in (2.0, 4.0]; for s in
\* [0.25, 0.5) the one stage is 0.5 and the product is not s.
C24_StretchProductFromHalf ==
    Returned =>
        LET s == Get(call.effects.speed)
            factors == Factors(Out.audioFilters)
        IN  (Given(call.effects.speed) /\ s >= 250 /\ s <= 4 * One)
                => /\ s >= 500 => MultipliesTo(factors, s)
                   /\ s > 2 * One => (Len(factors) = 2 /\ factors[1] = 2 * One
                                                       /\ 2 * factors[2] = s)
                   /\ s < 500 => factors = << 500 >>

\* Speed 3.0 came out as the stages 2.0 and 1.5.
C24_Witness ==
    /\ Returned
    /\ call.effects.speed = Some(3 * One)
    /\ Factors(Out.audioFilters) = << 2 * One, 1500 >>
    /\ Out.audioFilters[1].text = "atempo=2.0"
    /\ Out.audioFilters[2].text = "atempo=1.5"

\* The factor the video timestamps are divided by: that of the setpts stage,
\* or 1.0 when there is none.
VideoFactor(vf) ==
    IF Indexes(vf, "setpts") = {} THEN One
    ELSE vf[CHOOSE i \in Indexes(vf, "setpts") : TRUE].vals.factor

\* C25: for every speed input the video factor is the input clamped to
\* [0.25, 4.0]; below 0.5 there is exactly one stretch stage, of 0.5, and the
\* video keeps its factor; every stretch stage lies in [0.5, 2.0] and there
\* are at most two.
C25_SpeedClamped ==
    (Returned /\ Given(call.effects.speed)) =>
        LET clamped == Clamp(250, 4 * One, Get(call.effects.speed))
            factors == Factors(Out.audioFilters)
        IN  /\ Cardinality(Indexes(Out.videoFilters, "setpts")) <= 1
            /\ VideoFactor(Out.videoFilters) = clamped
            /\ clamped < 500 => factors = << 500 >>
            /\ Len(factors) <= 2
            /\ \A i \in 1..Len(factors) : factors[i] >= 500 /\ factors[i] <= 2 * One

\* The category a video stage belongs to, and the order of the categories.
Category(stage) ==
    CASE stage.filter = "setpts" -> "speed"
      [] stage.filter \in { "crop", "scale", "pad" } -> "crop"
      [] stage.filter = "zoompan" -> "zoom"
      [] stage.filter = "eq" -> "color"
      [] stage.filter = "fade" -> "fade"

Order(category) ==
    CASE category = "speed" -> 1 [] category = "crop" -> 2 [] category = "zoom" -> 3
      [] category = "color" -> 4 [] category = "fade" -> 5

\* C26: every video stage belongs to a category the payload holds, and the
\* stages come in the order speed, crop, zoom, color, fade.
C26_StagesInOrder ==
    Returned =>
        LET vf == Out.videoFilters
        IN  /\ \A i \in 1..Len(vf) : Given(call.effects[Category(vf[i])])
            /\ \A i, j \in 1..Len(vf) :
                   i < j => Order(Category(vf[i])) <= Order(Category(vf[j]))

\* All five categories were there and each put in a stage.
C26_Witness ==
    /\ Returned
    /\ { Category(Out.videoFilters[i]) : i \in 1..Len(Out.videoFilters) }
           = { "speed", "crop", "zoom", "color", "fade" }

RECURSIVE Texts(_)
Texts(stages) ==
    IF stages = << >> THEN << >> ELSE << Head(stages).text >> \o Texts(Tail(stages))

\* The payload of the example: preset cinematic and a one-second fade each
\* way, at speed 1.0 on a ten-second clip.
IsExample ==
    /\ call.effects.color = Some(Color(None, None, None, None, "cinematic"))
    /\ call.effects.fade = Some(Fade(Some(One), Some(One)))
    /\ call.effects.speed = Some(One)
    /\ call.effects.crop = None /\ call.effects.zoom = None
    /\ call.effects.audio = None
    /\ Or(call.videoMeta.duration, 10 * One) = 10 * One

\* C27: every video fade stage has exactly one audio fade stage of its
\* direction, start and duration; the audio chain never holds two fades of
\* one direction; and the example compiles to eq, fade in, fade out.
C27_FadePaired ==
    Returned =>
        LET vf == Out.videoFilters
            af == Out.audioFilters
        IN  /\ \A i \in Indexes(vf, "fade") :
                   Cardinality({ j \in Indexes(af, "afade") : af[j].vals = vf[i].vals }) = 1
            /\ \A t \in { "in", "out" } : Cardinality(Afades(af, t)) <= 1
            /\ IsExample =>
                   /\ Texts(vf) = << "eq=brightness=0.02:contrast=1.15:saturation=0.85:gamma=0.95",
                                     "fade=t=in:st=0:d=1", "fade=t=out:st=9.00:d=1" >>
                   /\ Texts(af) = << "afade=t=in:st=0:d=1", "afade=t=out:st=9.00:d=1" >>

C27_Witness == Returned /\ IsExample /\ Len(Out.videoFilters) = 3

Within(opt, lo, hi) == Given(opt) => (Get(opt) >= lo /\ Get(opt) <= hi)

\* C28: every number written into a stage lies in its documented range.
C28_ParametersClamped ==
    Returned =>
        \A i \in 1..Len(Out.videoFilters \o Out.audioFilters) :
            LET st == (Out.videoFilters \o Out.audioFilters)[i] IN
            CASE st.filter = "setpts" -> st.vals.factor >= 250 /\ st.vals.factor <= 4 * One
              [] st.filter = "zoompan" -> st.vals.intensity >= 50 /\ st.vals.intensity <= 500
              [] st.filter \in { "fade", "afade" } -> st.vals.d >= 0 /\ st.vals.d <= 5 * One
              [] st.filter = "eq" -> /\ Within(st.vals.brightness, 0 - One, One)
                                     /\ Within(st.vals.contrast, 0, 3 * One)
                                     /\ Within(st.vals.saturation, 0, 3 * One)
                                     /\ Within(st.vals.gamma, 100, 10 * One)
              [] st.filter = "volume" -> st.vals.volume >= 0 /\ st.vals.volume <= 3 * One
              [] OTHER -> TRUE

\* ------------------------------------------------ claims on the timeline graph
\* The audio streams mapped: what follows the video stream, if there is one.
AudioMaps(graph, n) == SubSeq(graph.maps, IF n > 0 THEN 2 ELSE 1, Len(graph.maps))

\* C29: with n >= 1 video entries the graph has exactly n trim stages; the
\* k-th reads the k-th input of the command, which is the file of the k-th
\* video entry, trims it to that entry's start and end and resets the
\* timestamps; one concat stage follows, of the n trimmed streams in order;
\* and with no audio entry no input and no stream beyond the video's is there.
C29_TrimAndConcat ==
    Returned =>
        LET video == OfType(call.timeline, "video")
            n == Len(video)
            assets == Assets(call.timeline, call.jobId, << >>)
            fc == Out.filterComplex
        IN  n >= 1 =>
              /\ Cardinality(Indexes(fc, "trim")) = n
              /\ \A k \in 1..n :
                    /\ fc[k].filter = "trim"
                    /\ fc[k].vals.input = k - 1
                    /\ Out.inputs[k] = AssetMapGet(assets, video[k].source_url)
                    /\ fc[k].vals.start = video[k].start
                    /\ fc[k].vals.end = video[k].end
                    /\ fc[k].text = "[" \o ToString(k - 1) \o ":v]trim="
                                        \o Seconds(video[k].start) \o ":"
                                        \o Seconds(video[k].end)
                                        \o ",setpts=PTS-STARTPTS[v" \o ToString(k - 1) \o "]"
              /\ Indexes(fc, "concat") = { n + 1 }
              /\ fc[n + 1].vals.n = n
              /\ \A k \in 1..n : fc[n + 1].vals.ins[k] = fc[k].vals.out
              /\ Len(fc[n + 1].vals.ins) = n
              /\ OfType(call.timeline, "audio") = << >>
                    => /\ Len(Out.inputs) = n
                       /\ Len(Out.maps) = 1
                       /\ Out.maps[1] \in { "[vfinal]", "[vsubs]" }
                       /\ Indexes(fc, "adelay") = {} /\ Indexes(fc, "amix") = {}

\* The scenario of the specification: two clips of two sources, 0 s to 5 s
\* and 0 s to 3 s, and no audio.
C29_Witness ==
    /\ Returned
    /\ call.timeline = << Segment("video", WebVideo, Some(0), Some(5 * 10 * One)),
                          Segment("video", WebClip, Some(0), Some(3 * 10 * One)) >>
    /\ Texts(Out.filterComplex) = << "[0:v]trim=0:5,setpts=PTS-STARTPTS[v0]",
                                     "[1:v]trim=0:3,setpts=PTS-STARTPTS[v1]",
                                     "[v0][v1]concat=n=2:v=1:a=0[vconcat]",
                                     "[vconcat]null[vfinal]" >>
    /\ Out.maps = << "[vfinal]" >>
    /\ Out.inputs[1] # Out.inputs[2]

\* ms is the whole number of milliseconds nearest to a time, the larger of
\* two equally near.
NearestMs(ms, time) == 10 * ms <= time + 5 /\ 10 * ms > time - 5

\* C30: the k-th audio entry is the input after the n video inputs and the
\* k - 1 audio inputs before it, delayed by its start rounded to
\* milliseconds; one audio entry is mapped as delayed, with no mix stage;
\* two or more give one mix stage of all of them, duration longest, whose
\* output is the only audio mapped.
C30_AudioDelayAndMix ==
    Returned =>
        LET n == Len(OfType(call.timeline, "video"))
            audio == OfType(call.timeline, "audio")
            m == Len(audio)
            assets == Assets(call.timeline, call.jobId, << >>)
            fc == Out.filterComplex
            first == IF n > 0 THEN n + 2 ELSE 0
        IN  /\ Cardinality(Indexes(fc, "adelay")) = m
            /\ \A k \in 1..m :
                  /\ fc[first + k].filter = "adelay"
                  /\ fc[first + k].vals.input = n + k - 1
                  /\ Out.inputs[n + k] = AssetMapGet(assets, audio[k].source_url)
                  /\ NearestMs(fc[first + k].vals.ms,
                               IF Given(audio[k].start) THEN Get(audio[k].start) ELSE 0)
            /\ Len(Out.inputs) = n + m
            /\ m = 1 => /\ Indexes(fc, "amix") = {}
                        /\ AudioMaps(Out, n) = << fc[first + 1].vals.out >>
            /\ m >= 2 => /\ Indexes(fc, "amix") = { first + m + 1 }
                         /\ fc[first + m + 1].vals.n = m
                         /\ fc[first + m + 1].vals.duration = "longest"
                         /\ Len(fc[first + m + 1].vals.ins) = m
                         /\ \A k \in 1..m :
                                fc[first + m + 1].vals.ins[k] = fc[first + k].vals.out
                         /\ AudioMaps(Out, n) = << fc[first + m + 1].vals.out >>

\* A clip and two sounds, starting at 1.2504 s and at 0.0316 s.
C30_Witness ==
    /\ Returned
    /\ call.timeline = << Segment("video", WebVideo, Some(0), Some(5 * 10 * One)),
                          Segment("audio", StoredAudio, Some(12504), Some(8 * 10 * One)),
                          Segment("audio", WebAudio, Some(316), None) >>
    /\ Texts(Out.filterComplex) = << "[0:v]trim=0:5,setpts=PTS-STARTPTS[v0]",
                                     "[v0]concat=n=1:v=1:a=0[vconcat]",
                                     "[vconcat]null[vfinal]",
                                     "[1:a]adelay=1250|1250[a0]",
                                     "[2:a]adelay=32|32[a1]",
                                     "[a0][a1]amix=inputs=2:duration=longest[outa]" >>
    /\ Out.maps = << "[vfinal]", "[outa]" >>

\* ------------------------------------------------- claims on the subtitles
\* The centiseconds a written timestamp reads back as.
ReadAssTime(stamp) == 360000 * stamp.h + 6000 * stamp.m + 100 * stamp.s + stamp.cs

\* What is lost of a cue time through the styled document, in 1e-5 s: the
\* time, less the written timestamp read back and multiplied by the speed.
Lost(time, stamp) == 100 * time - ReadAssTime(stamp) * call.speed

Stamped == call.fn = "generateAss" /\ Returned

\* C31 as stated: for every cue sequence and every speed, each cue's start
\* and end, written into the styled document at 1/speed and read back and
\* multiplied by the speed, are within 0.01 s of the original.
C31_RoundTrip ==
    Stamped =>
        \A i \in 1..Len(call.subtitles) :
            /\ Abs(Lost(call.subtitles[i].start, Out.events[i].start)) <= One
            /\ Abs(Lost(call.subtitles[i].end, Out.events[i].end)) <= One

\* C31 as the code has it: the timestamp is cut to whole centiseconds after
\* the rescale, so the time read back is never later than the original and
\* earlier by at most 0.01 s times the speed; that is within 0.01 s for
\* speeds up to 1 only.
C31_RoundTripWithinSpeed ==
    Stamped =>
        \A i \in 1..Len(call.subtitles) :
            /\ Lost(call.subtitles[i].start, Out.events[i].start) \in 0..(call.speed)
            /\ Lost(call.subtitles[i].end, Out.events[i].end) \in 0..(call.speed)
            /\ call.speed <= One =>
                   /\ Lost(call.subtitles[i].start, Out.events[i].start) <= One
                   /\ Lost(call.subtitles[i].end, Out.events[i].end) <= One

\* Two cues written at double speed, the first start read back 0.019 s early.
C31_Witness ==
    /\ Stamped
    /\ call.speed = 2 * One
    /\ Len(call.subtitles) = 2
    /\ call.subtitles[1].start = 1019
    /\ Out.events[1].start.text = "0:00:00.50"
    /\ Lost(call.subtitles[1].start, Out.events[1].start) = 1900

Parsed == call.fn = "parseSrt" /\ Returned

\* The blocks of the lines given: the longest runs of lines that are not empty.
RECURSIVE Runs(_, _)
Runs(lines, run) ==
    LET done == IF run = << >> THEN << >> ELSE << run >>
    IN  IF lines = << >> THEN done
        ELSE IF lines[1] = EmptyLine THEN done \o Runs(Tail(lines), << >>)
        ELSE Runs(Tail(lines), Append(run, lines[1]))

\* The lines of a block after its sequence number, if it has one.
Unnumbered(block) ==
    IF Len(block) >= 2 /\ block[1].kind = "number" /\ block[2].kind \in { "time", "arrow" }
    THEN Tail(block) ELSE block

\* A timestamp line followed by text, with or without a sequence number.
WellFormed(block) == Len(Unnumbered(block)) >= 2 /\ Unnumbered(block)[1].kind = "time"

InMs(stamp) == 1000 * (60 * (60 * stamp.h + stamp.m) + stamp.s) + stamp.ms

RECURSIVE Spaced(_)
Spaced(lines) ==
    IF Len(lines) = 1 THEN lines[1].text
    ELSE lines[1].text \o << " " >> \o Spaced(Tail(lines))

\* What the claim has a block contribute.  A block of a sequence number and
\* a timestamp with no text after it, of which the claim says nothing, is
\* the one other block that gives a cue: one with empty text.
Contribution(block) ==
    LET body == Unnumbered(block)
    IN  IF WellFormed(block)
        THEN << Cue(InMs(body[1].from), InMs(body[1].to), Spaced(Tail(body))) >>
        ELSE IF Len(block) = 2 /\ Len(body) = 1 /\ body[1].kind = "time"
        THEN << Cue(InMs(body[1].from), InMs(body[1].to), << >>) >>
        ELSE << >>

RECURSIVE Contributions(_)
Contributions(blocks) ==
    IF blocks = << >> THEN << >>
    ELSE Contribution(blocks[1]) \o Contributions(Tail(blocks))

\* C32: parseSrt returns, in input order, exactly one cue for every
\* blank-line-separated block that is a parseable timestamp line followed by
\* text, with or without a leading sequence number, its start and end the
\* timestamps in seconds and its text the text lines; a block whose
\* timestamp line cannot be parsed gives no cue, raises no error and leaves
\* the cues of the other blocks as they are.
C32_ParseSrt == Parsed => Out = Contributions(Runs(call.lines, << >>))

\* A block with an unparseable timestamp line, then a well-formed one.
C32_Witness ==
    /\ Parsed
    /\ Len(call.lines) = 5
    /\ call.lines[1] = ArrowLine
    /\ call.lines[2].kind = "text"
    /\ call.lines[3] = EmptyLine
    /\ call.lines[4] = TimeLine(Stamp(0, 0, 1, 19), Stamp(0, 0, 3, 500))
    /\ call.lines[5].kind = "text"
    /\ call.srtContent[2] = Eol("\r\n")
    /\ Out = << Cue(1019, 3500, << "h", "i" >>) >>

\* ---------------------------------------------- claims on the flat pipeline
Statuses(task) == { task.trace[k] : k \in 1..Len(task.trace) }

\* The subtitle text "srt text" of the requests, as parseSrt reads it: one
\* line, no timestamp.
SrtText == Content(<< TextLine(<< "s", "r", "t", " ", "t", "e", "x", "t" >>) >>, "\n")

\* C33: a flat job whose subtitle text yields zero cues gets no subtitle
\* stage and no subtitle file, and goes on to the render step instead of
\* being recorded as error.
C33_NoCuesContinues ==
    \A t \in 1..Len(tasks) :
        ( /\ Completed(tasks[t])
          /\ ~Given(tasks[t].req.timeline)
          /\ tasks[t].req.subtitle_content = "srt text"
          /\ ParseSrt(SrtText) = << >> )
            => /\ "rendering" \in Statuses(tasks[t])
               /\ "error" \notin Statuses(tasks[t])
               /\ AssPath(tasks[t].jobId) \notin tasks[t].tempFiles

\* C38: a job for which the disk check, every download, the metadata probe,
\* the encoder run and (in flat mode) the upload all succeed is recorded as
\* done and never as error, in flat and in timeline mode, with or without a
\* callback address or subtitles.  Nothing in the state space fails once the
\* inputs are in, so every task that ended with its inputs ready is such a job.
C38_SuccessIsDone ==
    \A t \in 1..Len(tasks) :
        Completed(tasks[t])
            => /\ tasks[t].trace[Len(tasks[t].trace)] = "done"
               /\ "error" \notin Statuses(tasks[t])
               /\ jobs[tasks[t].jobId].status = "done"

\* C40: for every measured amount of free disk space below 200 MB at task
\* start the job is recorded as error with the insufficient-space message
\* before any download is issued, any temporary file recorded or the encoder
\* started; a failure of the measurement itself does not fail the job so.
C40_LowDiskRefused ==
    \A t \in 1..Len(tasks) :
        LET task == tasks[t]
            low == Given(call.reading) /\ Get(call.reading) < MinFreeBytes
        IN  /\ low => /\ task.trace = << "processing", "error" >>
                      /\ jobs[task.jobId].error = InsufficientSpace(Get(call.reading))
                      /\ task.dl = << >>
                      /\ task.tempFiles = {}
                      /\ task.encoderRuns = 0
            /\ ~Given(call.reading) =>
                      jobs[task.jobId].error
                          \notin { InsufficientSpace(Get(reading)) : reading \in DiskReadings \ { None } }

\* ---------------------------------------------- claims on the job registry
\* C39: a job whose render task is still running is never removed from the
\* registry by the eviction sweep, so a status query for a running job never
\* answers not-found.
C39_RunningJobTracked == \A t \in Running : tasks[t].jobId \in Tracked(jobs)

\* The pieces of a text between the separators given.
RECURSIVE Pieces(_, _, _, _)
Pieces(text, separators, i, piece) ==
    IF i > Len(text) THEN << piece >>
    ELSE IF text[i] \in separators
    THEN << piece >> \o Pieces(text, separators, i + 1, << >>)
    ELSE Pieces(text, separators, i + 1, Append(piece, text[i]))

\* min(floor(width / (fontSize x 0.6)), 50), the font size 24 where none is given
Limit ==
    LET fontSize == IF call.options.font_size = None THEN 24 ELSE Get(call.options.font_size)
        capacity == (10 * call.videoWidth) \div (6 * fontSize)
    IN  IF capacity < 50 THEN capacity ELSE 50

\* C34: wrapText never splits a word: the words of its output, read across
\* the inserted line breaks, are the words of the input in the same order;
\* every output line that holds two or more words is at most maxChars
\* characters long; and the limit the compiler passes is
\* min(floor(width / (fontSize x 0.6)), 50), a line ending only where the
\* next word would take it past that limit.
C34_WrapKeepsWords ==
    Stamped =>
        \A i \in 1..Len(call.subtitles) :
            LET text == call.subtitles[i].text
                wrapped == Out.events[i].text
                lines == Pieces(wrapped, { LineBreak }, 1, << >>)
            IN  /\ Pieces(wrapped, { " ", LineBreak }, 1, << >>) = Pieces(text, { " " }, 1, << >>)
                /\ \A l \in 1..Len(lines) :
                       Len(Pieces(lines[l], { " " }, 1, << >>)) >= 2 => Len(lines[l]) <= Limit
                /\ \A l \in 1..(Len(lines) - 1) :
                       Len(lines[l]) + 1 + Len(Pieces(lines[l + 1], { " " }, 1, << >>)[1]) > Limit

\* The sixty characters wrapped at the cap of fifty: two lines of 49 and 9,
\* the tenth word whole on the first.
C34_Witness ==
    /\ Stamped
    /\ Len(call.subtitles) = 1
    /\ Len(call.subtitles[1].text) = 60
    /\ call.options.font_size = None
    /\ Len(Out.events[1].text) = 60
    /\ Out.events[1].text[50] = LineBreak
    /\ \A k \in 1..60 : k # 50 => Out.events[1].text[k] = call.subtitles[1].text[k]

\* ------------------------------------------------- claims on the metadata
\* C35: parseFps returns a positive number for every input: the quotient
\* for a rational string, the value for a decimal string, and 30 whenever
\* the input is missing, unparseable or evaluates to a non-positive value.
C35_FpsPositive ==
    (call.fn = "parseFps" /\ Returned) =>
        LET in == call.fpsStr
            usable == /\ in.form # "missing"
                      /\ Given(in.num) /\ Given(in.den)
                      /\ Get(in.den) # 0
                      /\ Get(in.num) * Get(in.den) > 0
        IN  /\ ~Out.nan
            /\ Out.num > 0
            /\ IF usable THEN Out.num * Get(in.den) = Get(in.num) * Out.den
                         ELSE Out = Quotient(30, 1)

Built == call.fn = "flatCommand" /\ Returned

\* C36: when the effects of a flat job carry a watermark address, the
\* compiler records that an auxiliary input is needed and the render step
\* wires a second image input with a scale stage and an overlay stage, so
\* that the encoder command has the watermark input and overlay; without a
\* watermark address it has neither.
C36_WatermarkWired ==
    Built =>
        LET asked == /\ Given(call.effects.watermark)
                     /\ Truthy(Get(call.effects.watermark).url)
            overlays == Indexes(Out.videoFilters, "overlay")
            scales == Indexes(Out.videoFilters, "scale")
        IN  /\ Out.needsWatermarkInput = asked
            /\ asked => /\ Len(Out.inputs) = 3
                        /\ overlays # {}
                        /\ scales # {}
            /\ ~asked => /\ Len(Out.inputs) = 2
                         /\ overlays = {}

\* C37: in a flat job, for every speed given, the factor that anchors the
\* fade-out (duration / s) and the factor that rescales the subtitle cue
\* times (1 / s) are the factor applied to the video timestamps (the speed
\* clamped to [0.25, 4.0]; that it is so clamped is C25).
C37_OneSpeedFactor ==
    (Built /\ Given(call.effects.speed)) =>
        LET applied == VideoFactor(Out.videoFilters)
            duration == IF NumTruthy(call.videoMeta.duration)
                        THEN Get(call.videoMeta.duration) ELSE 10 * One
        IN  /\ \A i \in Indexes(Out.videoFilters, "fade") :
                   Out.videoFilters[i].vals.t = "out"
                       => Out.videoFilters[i].vals.st
                              = 10 * FadeOutStart(duration, Some(applied),
                                                  Out.videoFilters[i].vals.d)
            /\ \A i \in Indexes(Out.videoFilters, "subtitles") :
                   Out.videoFilters[i].vals.speed = applied

====================================================================
